---- MODULE Spec2Model ----
(***************************************************************************)
(* Model of the agentic-team coordinator (createAgentTeam): the team state *)
(* (tasks, messages, per-agent state, goal flag), the coordination tools   *)
(* an agent session may call, the session boundary (runAgent), the run     *)
(* loop (run) and the external entry point deliverMessageReply.            *)
(***************************************************************************)
EXTENDS Integers, Sequences, FiniteSets, TLC

\* ------------------------------------------------------------------------
\* Bounds of the model
\* ------------------------------------------------------------------------
MaxTasks == 3
MaxMessages == 2
MaxSessions == 2

\* ------------------------------------------------------------------------
\* Team configuration
\* ------------------------------------------------------------------------
Manager == "mgr"
Team == <<"w1">>
BigBoss == "BigBoss"
maxIterations == 100

AgentOrder == <<Manager>> \o Team
Agents == {AgentOrder[i] : i \in 1..Len(AgentOrder)}
Recipients == Agents \cup {BigBoss}

\* a team of two workers, and the order in which createAgentTeam inserts
\* the agent states: the manager, then the team as configured
LargeTeam == Team \o <<"w2">>
InsertionOrder == <<Manager>> \o LargeTeam
LargeAgents == {InsertionOrder[i] : i \in 1..Len(InsertionOrder)}
Texts == {"a"}

NoId == 0
Undefined == "undefined"

VARIABLES
  tasks,          \* state.tasks
  messages,       \* state.messages
  agentStates,    \* state.agentStates
  goalComplete,   \* state.goalComplete
  goalSummary,    \* state.goalSummary
  shouldStop,     \* the cooperative stop flag
  pc,             \* position of run(): "idle" when no run is in progress
  iterations,     \* run()'s loop counter
  workQueue,      \* work items of the current batch still to run
  respQueue,      \* responders still to run
  session,        \* the agent session in flight, or NoSession
  lastRun,        \* AgentRunResult of the runAgent call that just returned
  runResult,      \* value returned by the last run()
  sessions,       \* number of sessions started so far
  fired,          \* callbacks fired by the last step, in order
  lastOp,         \* the last operation performed and what it returned
  asyncCallbacks, \* whether config.callbacks are async functions
  inFlight,       \* callbacks that were started and have not completed
  sessionLimit,   \* number of agent sessions the runtime will start
  stopPending,    \* a stop() call is awaiting, its promise not yet resolved
  domainTools,    \* names of the tools each agent's configuration supplies
  idStore,        \* ids, as text, of a task store and a message store
  resumed,        \* whether the coordinator was created with config.resumeFrom
  peer,           \* another coordinator of the same process and its state object
  activeAgentSessions \* the sessions runAgent tracks, by their number

teamVars == <<tasks, messages, agentStates, goalComplete, goalSummary>>
loopVars == <<shouldStop, pc, iterations, workQueue, respQueue, runResult>>
configVars == <<asyncCallbacks, sessionLimit, domainTools, idStore, resumed,
               peer>>
envVars == <<configVars, activeAgentSessions>>
cbVars == <<envVars, inFlight, stopPending>>
vars == <<tasks, messages, agentStates, goalComplete, goalSummary, shouldStop,
          pc, iterations, workQueue, respQueue, session, lastRun, runResult,
          sessions, fired, lastOp, asyncCallbacks, inFlight, sessionLimit,
          stopPending, domainTools, idStore, resumed, peer,
          activeAgentSessions>>

NoSession == [agent |-> Undefined, tools |-> <<>>]
NoRun == [agentId |-> Undefined, completionReason |-> Undefined]
NoResult == [returned |-> FALSE, complete |-> FALSE, blockedAgents |-> <<>>,
             iterations |-> 0]

\* ------------------------------------------------------------------------
\* Helpers
\* ------------------------------------------------------------------------
Max(S) == CHOOSE x \in S : \A y \in S : y <= x

\* Array.prototype.find as an index: hits is the set of indices satisfying
\* the predicate; the first of them, 0 if there is none
FindIndex(hits) ==
  IF hits = {} THEN 0 ELSE CHOOSE i \in hits : \A j \in hits : i <= j

Op(name, agent, id, result) ==
  [op |-> name, agent |-> agent, id |-> id, result |-> result]

Event(ev, id, who) == [ev |-> ev, id |-> id, who |-> who]

Turn(kind, from, text, ids) ==
  [kind |-> kind, from |-> from, text |-> text, ids |-> ids]

\* ids are modelled by their numeric suffix: n stands for "T-000n" / "M-000n"
generateTaskId(existingTasks) ==
  Max({existingTasks[i].id : i \in 1..Len(existingTasks)} \cup {0}) + 1

generateMessageId(existingMessages) ==
  Max({existingMessages[i].id : i \in 1..Len(existingMessages)} \cup {0}) + 1

InitAgentState(a) ==
  [status |-> "idle", currentTask |-> NoId, blockedOn |-> NoId,
   conversationHistory |-> <<>>]

\* no agent is configured with tools of its own
NoDomainTools == [a \in Agents |-> {}]

\* the state after construction of a team whose agentStates map holds ids,
\* with callbacks that are async functions or not and with the given domain
\* tools in the agents' configurations
\* the variables of the coordinator proper, after construction
InitTeam(limit, ids, async, tools) ==
  /\ tasks = <<>>
  /\ messages = <<>>
  /\ agentStates = [a \in ids |-> InitAgentState(a)]
  /\ goalComplete = FALSE
  /\ goalSummary = Undefined
  /\ shouldStop = FALSE
  /\ pc = "idle"
  /\ iterations = 0
  /\ workQueue = <<>>
  /\ respQueue = <<>>
  /\ session = NoSession
  /\ lastRun = NoRun
  /\ runResult = NoResult
  /\ sessions = 0
  /\ fired = <<>>
  /\ lastOp = Op("init", Undefined, NoId, Undefined)
  /\ asyncCallbacks = async
  /\ inFlight = <<>>
  /\ sessionLimit = limit
  /\ stopPending = FALSE
  /\ domainTools = tools
  /\ resumed = FALSE
  /\ activeAgentSessions = {}

\* stores holding no id
NoIds == [task |-> <<>>, message |-> <<>>]

\* no other coordinator has been created
NoPeer == [created |-> FALSE, sameObject |-> FALSE, state |-> <<>>]

InitConfig(limit, ids, async, tools) ==
  /\ InitTeam(limit, ids, async, tools)
  /\ idStore = NoIds
  /\ peer = NoPeer

InitStateUpTo(limit, ids, async) == InitConfig(limit, ids, async, NoDomainTools)

InitState(ids, async) == InitStateUpTo(MaxSessions, ids, async)

Init == InitState(Agents, FALSE)

\* ------------------------------------------------------------------------
\* Derived views of the state
\* ------------------------------------------------------------------------
getBlockedAgents(as) ==
  LET isBlocked(a) == /\ a \in DOMAIN as
                      /\ as[a].status = "blocked" /\ as[a].blockedOn # NoId
      ids == SelectSeq(InsertionOrder, isBlocked)
  IN [i \in 1..Len(ids) |-> [agentId |-> ids[i], messageId |-> as[ids[i]].blockedOn]]

getNextWork(as, ts) ==
  LET hasWork(a) ==
        /\ a \in DOMAIN as
        /\ as[a].status # "blocked"
        /\ as[a].currentTask # NoId
        /\ \E i \in 1..Len(ts) :
              /\ i = FindIndex({j \in 1..Len(ts) : ts[j].id = as[a].currentTask})
              /\ ts[i].status = "active"
  IN SelectSeq(InsertionOrder, hasWork)

\* variant: blocked agents with a pending message are listed as well
getAgentsWithPendingMessagesBlockedToo(as, ms) ==
  LET hasPending(a) ==
        /\ a \in DOMAIN as
        /\ \E i \in 1..Len(ms) : ms[i].to = a /\ ms[i].status = "pending"
  IN SelectSeq(InsertionOrder, hasPending)

getAgentsWithPendingMessages(as, ms) ==
  LET hasPending(a) ==
        /\ a \in DOMAIN as
        /\ as[a].status # "blocked"
        /\ \E i \in 1..Len(ms) : ms[i].to = a /\ ms[i].status = "pending"
  IN SelectSeq(InsertionOrder, hasPending)


\* ------------------------------------------------------------------------
\* Coordination tools (createCoordinationTools)
\* ------------------------------------------------------------------------
\* variant: sender and recipient of the ask are swapped
askMessageSwapped(messageId, agentId, to, question) ==
  [id |-> messageId, from |-> to, to |-> agentId, type |-> "ask",
   content |-> <<"text", question>>, inReplyTo |-> NoId, status |-> "pending"]

askMessage(messageId, agentId, to, question) ==
  [id |-> messageId, from |-> agentId, to |-> to, type |-> "ask",
   content |-> <<"text", question>>, inReplyTo |-> NoId, status |-> "pending"]

\* variant: a tell is stored pending, like an ask
tellMessagePending(messageId, agentId, to, message, inReplyTo) ==
  [id |-> messageId, from |-> agentId, to |-> to, type |-> "tell",
   content |-> <<"text", message>>, inReplyTo |-> inReplyTo,
   status |-> "pending"]

tellMessage(messageId, agentId, to, message, inReplyTo) ==
  [id |-> messageId, from |-> agentId, to |-> to, type |-> "tell",
   content |-> <<"text", message>>, inReplyTo |-> inReplyTo,
   status |-> "delivered"]

\* agentState.conversationHistory = result.messages: the runtime hands back
\* the prior conversation extended by the turns of this session
sessionHistory(as, agentId) ==
  [as EXCEPT ![agentId].conversationHistory =
     Append(@, Turn("session", agentId, Undefined, <<>>))]

\* variant: the suspended agent is marked blocked without recording the
\* message it waits for
handleAgentSuspensionNoBlockedOn(as, agentId, messageId) ==
  [as EXCEPT ![agentId].status = "blocked"]

handleAgentSuspension(as, agentId, messageId) ==
  [as EXCEPT ![agentId].status = "blocked", ![agentId].blockedOn = messageId]

\* runAgent's onSuspend callback: messageId is info.data?.messageId, NoId
\* when the suspend data carries none
onSuspend(as, agentId, messageId) ==
  IF messageId # NoId THEN handleAgentSuspension(as, agentId, messageId) ELSE as

\* variant: only an explicit inReplyTo matches a tell to an ask
originalAskExplicitOnly(ms, as, agentId, to, inReplyTo) ==
  IF inReplyTo # NoId
  THEN FindIndex({i \in 1..Len(ms) : ms[i].id = inReplyTo /\ ms[i].type = "ask"})
  ELSE 0

\* the ask a tell answers: explicit inReplyTo, else the auto-detected ask
\* the recipient is blocked on; 0 when there is none
originalAsk(ms, as, agentId, to, inReplyTo) ==
  IF inReplyTo # NoId
  THEN FindIndex({i \in 1..Len(ms) : ms[i].id = inReplyTo /\ ms[i].type = "ask"})
  ELSE IF to \in DOMAIN as /\ as[to].status = "blocked" /\ as[to].blockedOn # NoId
       THEN FindIndex({i \in 1..Len(ms) : /\ ms[i].id = as[to].blockedOn
                                            /\ ms[i].type = "ask"
                                            /\ ms[i].from = to
                                            /\ ms[i].to = agentId})
       ELSE 0

\* variant: a reply unblocks the sender of the ask whatever it is blocked on
unblocksAnyAsker(as, ask) == ask.from \in DOMAIN as

\* whether the reply to ask unblocks its sender
unblocks(as, ask) ==
  ask.from \in DOMAIN as /\ as[ask.from].blockedOn = ask.id

unblockAgent(as, asker, replier, text) ==
  [as EXCEPT ![asker] =
     [status |-> IF as[asker].currentTask # NoId THEN "working" ELSE "idle",
      currentTask |-> as[asker].currentTask,
      blockedOn |-> NoId,
      conversationHistory |->
        Append(as[asker].conversationHistory, Turn("reply", replier, text, <<>>))]]

InSession(a) == session.agent = a

\* ask.execute, then the runtime ends the session as suspended: onSuspend
\* blocks the agent on the new message and runAgent returns "suspended"
AskUpTo(limit, a, to, question) ==
  /\ InSession(a)
  /\ Len(messages) < limit
  /\ LET messageId == generateMessageId(messages)
     IN /\ messages' = Append(messages, askMessage(messageId, a, to, question))
        /\ agentStates' =
             sessionHistory(onSuspend(agentStates, a, messageId), a)
        /\ fired' = <<Event("messageSent", messageId, a),
                      Event("agentBlocked", messageId, a)>>
        /\ lastOp' = Op("ask", a, messageId, "suspend")
  /\ session' = NoSession
  /\ activeAgentSessions' = activeAgentSessions \ {sessions}
  /\ lastRun' = [agentId |-> a, completionReason |-> "suspended"]
  /\ UNCHANGED <<tasks, goalComplete, goalSummary, loopVars, sessions,
                 configVars, inFlight, stopPending>>

Ask(a, to, question) == AskUpTo(MaxMessages, a, to, question)

\* tell.execute with the message store allowed to grow up to limit
TellUpTo(limit, a, to, text, inReplyTo) ==
  /\ InSession(a)
  /\ Len(messages) < limit
  /\ LET messageId == generateMessageId(messages)
         pushed == Append(messages, tellMessage(messageId, a, to, text, inReplyTo))
         k == originalAsk(pushed, agentStates, a, to, inReplyTo)
         n == Len(pushed)
         tagged == IF k # 0 /\ inReplyTo = NoId
                   THEN [pushed EXCEPT ![n].inReplyTo = pushed[k].id]
                   ELSE pushed
     IN IF k = 0
        THEN /\ messages' = pushed
             /\ agentStates' = agentStates
             /\ fired' = <<Event("messageSent", messageId, a)>>
        ELSE /\ messages' = [tagged EXCEPT ![k].status = "delivered"]
             /\ IF unblocks(agentStates, pushed[k])
                THEN /\ agentStates' =
                          unblockAgent(agentStates, pushed[k].from, a, text)
                     /\ fired' = <<Event("messageDelivered", pushed[k].id, a),
                                   Event("agentUnblocked", NoId, pushed[k].from),
                                   Event("messageSent", messageId, a)>>
                ELSE /\ agentStates' = agentStates
                     /\ fired' = <<Event("messageDelivered", pushed[k].id, a),
                                   Event("messageSent", messageId, a)>>
  /\ lastOp' = Op("tell", a, generateMessageId(messages), "success")
  /\ session' = session
  /\ UNCHANGED <<tasks, goalComplete, goalSummary, loopVars, lastRun, sessions,
                 cbVars>>

Tell(a, to, text, inReplyTo) == TellUpTo(MaxMessages, a, to, text, inReplyTo)

\* variant: every new task is created active, busy assignee or not
assignStatusAlwaysActive(assigneeState) == "active"

\* variant: every new task is created queued, idle assignee or not
assignStatusAlwaysQueued(assigneeState) == "queued"

\* status the new task is created with
assignStatus(assigneeState) ==
  IF assigneeState.currentTask = NoId THEN "active" ELSE "queued"

newTask(taskId, agentId, assignee, status) ==
  [id |-> taskId, assignee |-> assignee, createdBy |-> agentId,
   status |-> status, completedAt |-> FALSE, completionSummary |-> Undefined]

\* variant: an assignee without an AgentState is given a fresh one
assigneeStateOrNew(states, assignee) ==
  IF assignee \in DOMAIN states THEN states[assignee]
  ELSE InitAgentState(assignee)

\* what Map.get gives for an id that has no AgentState
NoAgentState ==
  [status |-> Undefined, currentTask |-> NoId, blockedOn |-> NoId,
   conversationHistory |-> <<>>]

\* state.agentStates.get(args.assignee)
assigneeState(states, assignee) ==
  IF assignee \in DOMAIN states THEN states[assignee] ELSE NoAgentState

AssignTask(a, assignee) ==
  /\ a = Manager
  /\ InSession(a)
  /\ IF assigneeState(agentStates, assignee) = NoAgentState
     THEN /\ lastOp' = Op("assign_task", a, NoId, "error")
          /\ fired' = <<>>
          /\ UNCHANGED <<tasks, agentStates>>
     ELSE /\ Len(tasks) < MaxTasks
          /\ LET taskId == generateTaskId(tasks)
                 status == assignStatus(assigneeState(agentStates, assignee))
             IN /\ tasks' = Append(tasks, newTask(taskId, a, assignee, status))
                /\ agentStates' =
                     IF status = "active"
                     THEN [agentStates EXCEPT ![assignee].currentTask = taskId,
                                              ![assignee].status = "working"]
                     ELSE agentStates
                /\ fired' = IF status = "active"
                            THEN <<Event("taskCreated", taskId, assignee),
                                   Event("taskActivated", taskId, assignee)>>
                            ELSE <<Event("taskCreated", taskId, assignee)>>
                /\ lastOp' = Op("assign_task", a, taskId, status)
  /\ session' = session
  /\ UNCHANGED <<messages, goalComplete, goalSummary, loopVars, lastRun, sessions,
                 cbVars>>

\* variant: only active tasks count as incomplete
incompleteTasksActiveOnly(ts) ==
  SelectSeq(ts, LAMBDA t : t.status = "active")

incompleteTasks(ts) ==
  SelectSeq(ts, LAMBDA t : t.status = "active" \/ t.status = "queued")

\* the suspension marker wait_for_task_completions returns, as runAgent
\* hands it on in AgentRunResult.suspendInfo
waitSuspendInfo(incomplete) ==
  [reason |-> "waiting_for_task_completions",
   incompleteTasks |-> [i \in 1..Len(incomplete) |-> incomplete[i].id],
   count |-> Len(incomplete)]

\* returns the all-complete hint, or suspends the manager's session; the
\* suspend data carries no messageId, so onSuspend blocks nobody
WaitForTaskCompletions(a) ==
  /\ a = Manager
  /\ InSession(a)
  /\ IF Len(incompleteTasks(tasks)) = 0
     THEN /\ lastOp' = Op("wait_for_task_completions", a, NoId, "allComplete")
          /\ session' = session
          /\ UNCHANGED <<agentStates, lastRun, activeAgentSessions>>
     ELSE /\ lastOp' = Op("wait_for_task_completions", a, NoId, "suspend")
          /\ session' = NoSession
          /\ activeAgentSessions' = activeAgentSessions \ {sessions}
          /\ agentStates' = sessionHistory(onSuspend(agentStates, a, NoId), a)
          /\ lastRun' = [agentId |-> a, completionReason |-> "suspended",
                          suspendInfo |-> waitSuspendInfo(incompleteTasks(tasks))]
  /\ fired' = <<>>
  /\ UNCHANGED <<tasks, messages, goalComplete, goalSummary, loopVars, sessions,
                 configVars, inFlight, stopPending>>


\* ------------------------------------------------------------------------
\* handleTaskCompletion
\* ------------------------------------------------------------------------
\* variant: looks the task up by status instead of by the agent's currentTask
currentTaskIndexAnyActive(ts, agentState) ==
  FindIndex({i \in 1..Len(ts) : ts[i].status = "active"})

\* state.tasks.find((t) => t.id === agentState.currentTask)
currentTaskIndex(ts, agentState) ==
  FindIndex({i \in 1..Len(ts) : ts[i].id = agentState.currentTask})

\* variant: promotes the newest queued task of the agent instead of the oldest
queuedTaskIndexNewest(ts, agentId) ==
  LET hits == {i \in 1..Len(ts) :
                 ts[i].assignee = agentId /\ ts[i].status = "queued"}
  IN IF hits = {} THEN 0 ELSE Max(hits)

\* state.tasks.find((t) => t.assignee === agentId && t.status === "queued")
queuedTaskIndex(ts, agentId) ==
  FindIndex({i \in 1..Len(ts) : ts[i].assignee = agentId /\ ts[i].status = "queued"})

\* variant: completes every task of the assignee instead of the current one
completeTaskOfAssignee(ts, k, finalOutput) ==
  [i \in 1..Len(ts) |->
     IF ts[i].assignee = ts[k].assignee
     THEN [ts[i] EXCEPT !.status = "completed", !.completedAt = TRUE,
                         !.completionSummary = finalOutput]
     ELSE ts[i]]

completeTask(ts, k, finalOutput) ==
  [ts EXCEPT ![k].status = "completed",
             ![k].completedAt = TRUE,
             ![k].completionSummary = finalOutput]

\* variant: the completion notification is stored already delivered
notificationMessageDelivered(notificationId, agentId, task) ==
  [id |-> notificationId, from |-> agentId, to |-> task.createdBy,
   type |-> "tell",
   content |-> <<"completed", task.id, task.completionSummary>>,
   inReplyTo |-> NoId, status |-> "delivered"]

notificationMessage(notificationId, agentId, task) ==
  [id |-> notificationId, from |-> agentId, to |-> task.createdBy,
   type |-> "tell",
   content |-> <<"completed", task.id, task.completionSummary>>,
   inReplyTo |-> NoId, status |-> "pending"]

\* variant: the promoted task becomes the current task but stays queued
promoteTaskStaysQueued(ts, q) == ts

promoteTask(ts, q) == [ts EXCEPT ![q].status = "active"]

\* variant: the manager's completion is handled like a worker's
isGoalCompletionNever(agentId) == FALSE

\* the manager completing its session means the goal is complete
isGoalCompletion(agentId) == agentId = Manager

\* as0 is the agent-state map after runAgent stored the session's conversation
handleTaskCompletionUpTo(limit, as0, agentId, finalOutput) ==
  IF isGoalCompletion(agentId)
  THEN /\ goalComplete' = TRUE
       /\ goalSummary' = finalOutput
       /\ fired' = <<Event("goalComplete", NoId, finalOutput)>>
       /\ agentStates' = as0
       /\ UNCHANGED <<tasks, messages>>
  ELSE LET k == currentTaskIndex(tasks, as0[agentId])
       IN IF k = 0
          THEN /\ agentStates' = [as0 EXCEPT ![agentId].status = "idle"]
               /\ fired' = <<>>
               /\ UNCHANGED <<tasks, messages, goalComplete, goalSummary>>
          ELSE LET done == completeTask(tasks, k, finalOutput)
                   notificationId == generateMessageId(messages)
                   q == queuedTaskIndex(done, agentId)
               IN /\ Len(messages) < limit
                  /\ messages' =
                       Append(messages,
                              notificationMessage(notificationId, agentId, done[k]))
                  /\ IF q = 0
                     THEN /\ tasks' = done
                          /\ agentStates' =
                               [as0 EXCEPT ![agentId].currentTask = NoId,
                                           ![agentId].status = "idle"]
                          /\ fired' = <<Event("taskCompleted", done[k].id, agentId),
                                        Event("messageSent", notificationId, agentId)>>
                     ELSE /\ tasks' = promoteTask(done, q)
                          /\ agentStates' =
                               [as0 EXCEPT ![agentId] =
                                  [status |-> "working",
                                   currentTask |-> done[q].id,
                                   blockedOn |-> as0[agentId].blockedOn,
                                   conversationHistory |->
                                     Append(as0[agentId].conversationHistory,
                                            Turn("newtask", agentId, Undefined,
                                                 <<done[q].id>>))]]
                          /\ fired' = <<Event("taskCompleted", done[k].id, agentId),
                                        Event("messageSent", notificationId, agentId),
                                        Event("taskActivated", done[q].id, agentId)>>
                  /\ UNCHANGED <<goalComplete, goalSummary>>

handleTaskCompletion(as0, agentId, finalOutput) ==
  handleTaskCompletionUpTo(MaxMessages, as0, agentId, finalOutput)

\* ------------------------------------------------------------------------
\* runAgent: the session boundary
\* ------------------------------------------------------------------------
pendingFor(ms, agentId) ==
  {i \in 1..Len(ms) : ms[i].to = agentId /\ ms[i].status = "pending"}

\* ids of a set of message indices, in store order
idsOf(ms, I) ==
  LET sel == SelectSeq([i \in 1..Len(ms) |-> i], LAMBDA i : i \in I)
  IN [j \in 1..Len(sel) |-> ms[sel[j]].id]

\* names of the tools createCoordinationTools builds for an agent
coordinationTools(agentId) ==
  {"ask", "tell", "get_task_brief", "check_team_status"}
    \cup (IF agentId = Manager
          THEN {"assign_task", "wait_for_task_completions"}
          ELSE {})

\* {...coordinationTools, ...(agentConfig.tools || {})}: the table handed to
\* the session says, for every name, whose tool it is; a property spread
\* later overwrites one spread earlier
allTools(coordination, domain) ==
  [n \in coordination \cup domain |->
     IF n \in domain THEN "domain" ELSE "coordination"]

\* callbacks called without await: an async callback is still running when
\* the call returns, a synchronous one has completed
notAwaited(evs) == IF asyncCallbacks THEN evs ELSE <<>>

\* an agent with existing history is shown its pending messages, which are
\* marked delivered; a fresh agent gets them in its initial message only
presentsPending(as, ms, agentId) ==
  Len(as[agentId].conversationHistory) > 0 /\ pendingFor(ms, agentId) # {}

\* the beginning of runAgent(agentId), up to the session being in flight
BeginSession(agentId) ==
  /\ agentId \in DOMAIN agentStates
  /\ sessions < sessionLimit
  /\ sessions' = sessions + 1
  /\ activeAgentSessions' = activeAgentSessions \cup {sessions + 1}
  /\ session' = [agent |-> agentId,
                 tools |-> allTools(coordinationTools(agentId),
                                    domainTools[agentId])]
  /\ lastOp' = Op("runAgent", agentId, NoId, Undefined)
  /\ IF presentsPending(agentStates, messages, agentId)
     THEN LET I == pendingFor(messages, agentId)
              ids == idsOf(messages, I)
          IN /\ messages' = [i \in 1..Len(messages) |->
                               IF i \in I
                               THEN [messages[i] EXCEPT !.status = "delivered"]
                               ELSE messages[i]]
             /\ agentStates' =
                  [agentStates EXCEPT ![agentId].conversationHistory =
                     Append(@, Turn("pending", agentId, Undefined, ids))]
             /\ fired' = [j \in 1..Len(ids) |->
                            Event("messageDelivered", ids[j], agentId)]
             /\ inFlight' = inFlight \o notAwaited(fired')
     ELSE /\ fired' = <<>>
          /\ UNCHANGED <<messages, agentStates, inFlight>>
  /\ UNCHANGED <<tasks, goalComplete, goalSummary, lastRun, configVars,
                 stopPending>>

\* the session resolves with completionReason "task_complete"
TaskCompleteUpTo(limit, a, finalOutput) ==
  /\ session.agent = a
  /\ handleTaskCompletionUpTo(limit, sessionHistory(agentStates, a), a,
                              finalOutput)
  /\ session' = NoSession
  /\ lastRun' = [agentId |-> a, completionReason |-> "task_complete"]
  /\ lastOp' = Op("task_complete", a, agentStates[a].currentTask, finalOutput)
  /\ activeAgentSessions' = activeAgentSessions \ {sessions}
  /\ UNCHANGED <<loopVars, sessions, configVars, inFlight, stopPending>>

TaskComplete(a, finalOutput) == TaskCompleteUpTo(MaxMessages, a, finalOutput)

\* the session resolves with another completion reason (max_turns, error)
SessionOther(a, reason) ==
  /\ session.agent = a
  /\ agentStates' = sessionHistory(agentStates, a)
  /\ session' = NoSession
  /\ lastRun' = [agentId |-> a, completionReason |-> reason]
  /\ lastOp' = Op("session_end", a, NoId, reason)
  /\ fired' = <<>>
  /\ activeAgentSessions' = activeAgentSessions \ {sessions}
  /\ UNCHANGED <<tasks, messages, goalComplete, goalSummary, loopVars, sessions,
                 configVars, inFlight, stopPending>>

\* variant: an exception of the runtime ends the whole run
SessionThrowsAbortsRun(a) ==
  /\ session.agent = a
  /\ session' = NoSession
  /\ lastRun' = [agentId |-> a, completionReason |-> "error"]
  /\ lastOp' = Op("session_throw", a, NoId, "error")
  /\ fired' = <<>>
  /\ pc' = "idle"
  /\ workQueue' = <<>>
  /\ respQueue' = <<>>
  /\ UNCHANGED <<teamVars, shouldStop, iterations, runResult, sessions, cbVars>>

\* the runtime throws: the catch block returns completionReason "error"
SessionThrows(a) ==
  /\ session.agent = a
  /\ session' = NoSession
  /\ lastRun' = [agentId |-> a, completionReason |-> "error"]
  /\ lastOp' = Op("session_throw", a, NoId, "error")
  /\ fired' = <<>>
  /\ UNCHANGED <<teamVars, loopVars, sessions, cbVars>>


\* ------------------------------------------------------------------------
\* run(): the run loop
\* ------------------------------------------------------------------------
\* variant: run() goes on without awaiting the session it started
NoCallNotAwaited == TRUE

NoCall == session = NoSession

\* variant: when some agent is blocked on external input, every blocked agent
\* is reported
externalBlockedReportsAll(blocked, ms) ==
  IF \E j \in 1..Len(blocked), i \in 1..Len(ms) :
        /\ ms[i].id = blocked[j].messageId
        /\ (ms[i].to = BigBoss \/ ms[i].to \notin DOMAIN agentStates)
  THEN blocked
  ELSE <<>>

\* blocked agents whose ask is addressed to BigBoss or to an unknown id
externalBlocked(blocked, ms) ==
  SelectSeq(blocked, LAMBDA b :
    LET k == FindIndex({i \in 1..Len(ms) : ms[i].id = b.messageId})
    IN k # 0 /\ (ms[k].to = BigBoss \/ ms[k].to \notin DOMAIN agentStates))

\* variant: run() reports the goal as not complete
ReturnedIncomplete(blockedAgents) ==
  [returned |-> TRUE, complete |-> FALSE,
   blockedAgents |-> blockedAgents, iterations |-> iterations']

Returned(blockedAgents) ==
  [returned |-> TRUE, complete |-> goalComplete,
   blockedAgents |-> blockedAgents, iterations |-> iterations']

\* the code after the loop: run() returns
ExitLoop ==
  /\ pc' = "idle"
  /\ runResult' = Returned(getBlockedAgents(agentStates))
  /\ UNCHANGED <<workQueue, respQueue>>

\* run() is called: reset the stop flag and seed with the manager
RunStart ==
  /\ pc = "idle"
  /\ NoCall
  /\ shouldStop' = FALSE
  /\ iterations' = 0
  /\ runResult' = NoResult
  /\ pc' = "loop"
  /\ BeginSession(Manager)
  /\ UNCHANGED <<workQueue, respQueue>>

\* a step of run() that runs no agent; the result of the session that just
\* ended is read by this step at most and then dropped
Internal ==
  /\ fired' = <<>>
  /\ lastOp' = Op("run", Undefined, NoId, Undefined)
  /\ lastRun' = NoRun
  /\ UNCHANGED <<teamVars, session, sessions, shouldStop, cbVars>>

\* variant: the loop is not bounded by an iteration count
loopConditionUnbounded == ~goalComplete /\ ~shouldStop

\* variant: the loop condition does not look at the stop flag
loopConditionIgnoresStop == iterations < maxIterations /\ ~goalComplete

\* the condition of run()'s while loop
loopCondition == iterations < maxIterations /\ ~goalComplete /\ ~shouldStop

\* the while condition and the body of one iteration up to its branch
LoopHead ==
  /\ pc = "loop"
  /\ NoCall
  /\ Internal
  /\ IF ~loopCondition
     THEN /\ iterations' = iterations
          /\ ExitLoop
     ELSE
       LET blocked == getBlockedAgents(agentStates)
           external == externalBlocked(blocked, messages)
           workItems == getNextWork(agentStates, tasks)
           responders == getAgentsWithPendingMessages(agentStates, messages)
       IN
       /\ iterations' = iterations + 1
       /\ IF Len(external) > 0
          THEN /\ pc' = "idle"
               /\ runResult' = Returned(external)
               /\ UNCHANGED <<workQueue, respQueue>>
          ELSE IF Len(workItems) = 0 /\ Len(blocked) > 0
          THEN IF Len(responders) > 0
               THEN /\ pc' = "resp"
                    /\ respQueue' = responders
                    /\ UNCHANGED <<workQueue, runResult>>
               ELSE ExitLoop
          ELSE IF Len(workItems) = 0 /\ Len(blocked) = 0
          THEN IF /\ Manager \in DOMAIN agentStates
                  /\ agentStates[Manager].status # "blocked"
               THEN /\ pc' = "reassess"
                    /\ workQueue' = workItems
                    /\ UNCHANGED <<respQueue, runResult>>
               ELSE ExitLoop
          ELSE /\ pc' = "work"
               /\ workQueue' = workItems
               /\ UNCHANGED <<respQueue, runResult>>

\* for (const responderId of agentsWithMessages): run the next responder,
\* or leave the for loop and continue the while loop
Responders ==
  /\ pc = "resp"
  /\ NoCall
  /\ IF respQueue = <<>> \/ shouldStop
     THEN /\ pc' = "loop"
          /\ respQueue' = <<>>
          /\ Internal
          /\ UNCHANGED <<iterations, workQueue, runResult>>
     ELSE /\ BeginSession(Head(respQueue))
          /\ respQueue' = Tail(respQueue)
          /\ UNCHANGED <<shouldStop, pc, iterations, workQueue, runResult>>

\* no work and nobody blocked: the manager is run to reassess
ManagerReassess ==
  /\ pc = "reassess"
  /\ NoCall
  /\ BeginSession(Manager)
  /\ pc' = "mgrCheck"
  /\ UNCHANGED <<shouldStop, iterations, workQueue, respQueue, runResult>>

\* after the reassessing manager returned
ManagerCheck ==
  /\ pc = "mgrCheck"
  /\ NoCall
  /\ Internal
  /\ iterations' = iterations
  /\ IF lastRun.completionReason = "task_complete"
     THEN ExitLoop
     ELSE IF /\ Len(getNextWork(agentStates, tasks)) = 0
             /\ Len(getBlockedAgents(agentStates)) = 0
          THEN ExitLoop
          ELSE /\ pc' = "work"
               /\ UNCHANGED <<workQueue, respQueue, runResult>>

\* for (const work of workItems): run the next agent with work, or leave
\* the batch when it is exhausted, stop was requested or the goal completed
WorkBatch ==
  /\ pc = "work"
  /\ NoCall
  /\ IF workQueue = <<>> \/ shouldStop \/ goalComplete
     THEN /\ pc' = "post"
          /\ workQueue' = <<>>
          /\ Internal
          /\ UNCHANGED <<iterations, respQueue, runResult>>
     ELSE /\ BeginSession(Head(workQueue))
          /\ workQueue' = Tail(workQueue)
          /\ UNCHANGED <<shouldStop, pc, iterations, respQueue, runResult>>

\* after the batch the manager is run to process completions
PostBatch ==
  /\ pc = "post"
  /\ NoCall
  /\ pc' = "loop"
  /\ IF /\ ~goalComplete /\ ~shouldStop
        /\ Manager \in DOMAIN agentStates
        /\ agentStates[Manager].status # "blocked"
     THEN /\ BeginSession(Manager)
          /\ UNCHANGED shouldStop
     ELSE Internal
  /\ UNCHANGED <<iterations, workQueue, respQueue, runResult>>

\* stop() is called while a run is awaiting a session: it sets the
\* cooperative flag, asks the tracked session to stop and awaits that
Stop ==
  /\ pc # "idle"
  /\ ~NoCall
  /\ ~shouldStop
  /\ shouldStop' = TRUE
  /\ stopPending' = TRUE
  /\ fired' = <<>>
  /\ lastOp' = Op("stop", Undefined, NoId, Undefined)
  /\ UNCHANGED <<teamVars, pc, iterations, workQueue, respQueue, runResult,
                 session, lastRun, sessions, envVars, inFlight>>

\* the promise returned by stop() resolves with the state: the session it
\* asked to stop has ended, which settles session.stop() at the latest
StopResolves ==
  /\ stopPending
  /\ NoCall
  /\ stopPending' = FALSE
  /\ fired' = <<>>
  /\ lastOp' = Op("stop", Undefined, NoId, "resolved")
  /\ UNCHANGED <<teamVars, loopVars, session, lastRun, sessions, envVars,
                 inFlight>>

\* ------------------------------------------------------------------------
\* deliverMessageReply
\* ------------------------------------------------------------------------
\* variant: the reply travels in the direction of the ask
replyMessageSameDirection(replyId, originalMessage, replyContent) ==
  [id |-> replyId, from |-> originalMessage.from, to |-> originalMessage.to,
   type |-> "tell", content |-> <<"text", replyContent>>,
   inReplyTo |-> originalMessage.id, status |-> "delivered"]

replyMessage(replyId, originalMessage, replyContent) ==
  [id |-> replyId, from |-> originalMessage.to, to |-> originalMessage.from,
   type |-> "tell", content |-> <<"text", replyContent>>,
   inReplyTo |-> originalMessage.id, status |-> "delivered"]

\* variant: the reply is delivered to any stored message, ask or not
repliableAnyMessage(ms, k) == k # 0

\* the message found by id exists and is an ask
repliable(ms, k) == k # 0 /\ ms[k].type = "ask"

\* deliverMessageReply with the message store allowed to grow up to limit;
\* callable by the embedding program whenever the coordinator is not
\* executing: between runs, or while an agent session is awaited
DeliverMessageReplyUpTo(limit, messageId, replyContent) ==
  /\ pc = "idle" \/ ~NoCall
  /\ LET k == FindIndex({i \in 1..Len(messages) : messages[i].id = messageId})
     IN IF ~repliable(messages, k)
        THEN /\ lastOp' = Op("deliverMessageReply", Undefined, messageId, "ignored")
             /\ fired' = <<>>
             /\ UNCHANGED <<messages, agentStates, inFlight>>
        ELSE /\ Len(messages) < limit
             /\ LET replyId == generateMessageId(messages)
                    reply == replyMessage(replyId, messages[k], replyContent)
                IN /\ messages' = [Append(messages, reply)
                                     EXCEPT ![k].status = "delivered"]
                   /\ IF unblocks(agentStates, messages[k])
                      THEN /\ agentStates' =
                                unblockAgent(agentStates, messages[k].from,
                                             reply.from, replyContent)
                           /\ fired' = <<Event("agentUnblocked", NoId, messages[k].from),
                                         Event("messageSent", replyId, reply.from),
                                         Event("messageDelivered", messageId, reply.from)>>
                           /\ inFlight' = inFlight \o notAwaited(fired')
                      ELSE /\ agentStates' = agentStates
                           /\ fired' = <<>>
                           /\ inFlight' = inFlight
                   /\ lastOp' = Op("deliverMessageReply", Undefined, messageId, "delivered")
  /\ UNCHANGED <<tasks, goalComplete, goalSummary, loopVars, session, lastRun,
                 sessions, envVars, stopPending>>

DeliverMessageReply(messageId, replyContent) ==
  DeliverMessageReplyUpTo(MaxMessages, messageId, replyContent)

\* a callback that was not awaited runs to completion, in any order
CallbackCompletes ==
  /\ inFlight # <<>>
  /\ \E i \in 1..Len(inFlight) :
       inFlight' = SubSeq(inFlight, 1, i - 1) \o SubSeq(inFlight, i + 1, Len(inFlight))
  /\ fired' = <<>>
  /\ lastOp' = Op("callback_done", Undefined, NoId, Undefined)
  /\ UNCHANGED <<teamVars, loopVars, session, lastRun, sessions, envVars,
                 stopPending>>

\* runAgent throws before its try block when the agent has no AgentState, and
\* run() does not catch it: the call to run() is rejected
RunAgentThrows(agentId) == agentId \notin DOMAIN agentStates

\* run() is called and its seed runAgent(manager) throws
RunThrows ==
  /\ pc = "idle"
  /\ NoCall
  /\ RunAgentThrows(Manager)
  /\ shouldStop' = FALSE
  /\ iterations' = 0
  /\ runResult' = NoResult
  /\ fired' = <<>>
  /\ lastOp' = Op("run", Manager, NoId, "throws")
  /\ lastRun' = NoRun
  /\ UNCHANGED <<teamVars, pc, workQueue, respQueue, session, sessions, cbVars>>

\* ------------------------------------------------------------------------
\* Specification
\* ------------------------------------------------------------------------
\* values an agent passes as inReplyTo: none, the id of a stored message, or
\* an id that names no ask (the id the tell itself receives)
InReplyToArgs(ms) == 0..(Len(ms) + 1)

\* ids of the asks in the store, the ones a reply can be delivered to
AskIds(ms) == {ms[i].id : i \in {j \in 1..Len(ms) : ms[j].type = "ask"}}

Next ==
  \/ RunStart
  \/ LoopHead
  \/ Responders
  \/ ManagerReassess
  \/ ManagerCheck
  \/ WorkBatch
  \/ PostBatch
  \/ \E a \in Agents : \E to \in Recipients \ {a}, text \in Texts :
       Ask(a, to, text)
  \/ \E a \in Agents : \E to \in Recipients \ {a}, text \in Texts,
                             r \in InReplyToArgs(messages) :
       Tell(a, to, text, r)
  \/ \E assignee \in Recipients : AssignTask(Manager, assignee)
  \/ WaitForTaskCompletions(Manager)
  \/ \E a \in Agents, text \in Texts : TaskComplete(a, text)
  \/ \E a \in Agents : SessionOther(a, "max_turns")
  \/ \E a \in Agents : SessionThrows(a)
  \/ \E id \in AskIds(messages), text \in Texts : DeliverMessageReply(id, text)

Spec == Init /\ [][Next]_vars

\* the same program when the embedding program, between two runs, also calls
\* deliverMessageReply with ids that name no ask: a tell, or no message at all
NotAskIds(ms) ==
  ({ms[i].id : i \in 1..Len(ms)} \ AskIds(ms)) \cup {generateMessageId(ms)}

NextAnyId ==
  \/ Next
  \/ \E id \in NotAskIds(messages), text \in Texts :
       pc = "idle" /\ DeliverMessageReply(id, text)

SpecAnyId == Init /\ [][NextAnyId]_vars

\* ids of the asks in the store that are marked delivered
DeliveredAskIds(ms) ==
  {ms[i].id : i \in {j \in 1..Len(ms) : ms[j].type = "ask" /\ ms[j].status = "delivered"}}

\* a further reply to a delivered ask, arriving when the message store of the
\* model is full: from the embedding program, or from an agent that names
\* the ask
LateReply(messageId, replyContent) ==
  /\ Len(messages) = MaxMessages
  /\ DeliverMessageReplyUpTo(MaxMessages + 1, messageId, replyContent)

LateTell(a, to, text, inReplyTo) ==
  /\ Len(messages) = MaxMessages
  /\ TellUpTo(MaxMessages + 1, a, to, text, inReplyTo)

NextReplies ==
  \/ Next
  \/ \E id \in DeliveredAskIds(messages), text \in Texts : LateReply(id, text)
  \/ \E a \in Agents : \E to \in Recipients \ {a}, text \in Texts,
                             r \in DeliveredAskIds(messages) :
       LateTell(a, to, text, r)

SpecReplies == Init /\ [][NextReplies]_vars

\* the same program with callbacks that are async functions
InitAsync == InitState(Agents, TRUE)

NextAsync == Next \/ CallbackCompletes

SpecAsync == InitAsync /\ [][NextAsync]_vars

\* a freshly constructed team with the configured worker, or with no worker
InitSolo == InitState({Manager}, FALSE)

SpecSolo == (Init \/ InitSolo) /\ [][Next]_vars

\* a team resumed from a saved state (config.resumeFrom): the state of a
\* fresh team, or one whose agentStates lacks the configured manager
InitResumed == InitState(Agents \ {Manager}, FALSE)

NextResumed == Next \/ RunThrows

SpecResumed == (Init \/ InitResumed) /\ [][NextResumed]_vars

\* the first run() of a fresh team in which the manager assigns one task and
\* every session ends at its turn limit without completing it: the runtime
\* starts as many sessions as a run of maxIterations iterations can ask for
\* (the seed, then in every iteration the manager and the worker in the batch
\* and the manager after it)
LongRunSessions == 3 * maxIterations + 1

InitLong == InitStateUpTo(LongRunSessions, Agents, FALSE)

FirstRunStart == sessions = 0 /\ RunStart

LoopSteps ==
  \/ LoopHead
  \/ ManagerReassess
  \/ ManagerCheck
  \/ WorkBatch
  \/ PostBatch

SessionEnds == \E a \in Agents : SessionOther(a, "max_turns")

NextLong ==
  \/ FirstRunStart
  \/ LoopSteps
  \/ \E assignee \in Agents : tasks = <<>> /\ AssignTask(Manager, assignee)
  \/ SessionEnds

\* every agent session terminates and run() keeps executing
SpecLong ==
  InitLong /\ [][NextLong]_vars /\ WF_vars(LoopSteps) /\ WF_vars(SessionEnds)

\* tool names an agent's configuration may supply: two that collide with
\* coordination tools and one that does not
DomainToolNames == {"ask", "assign_task", "search"}

\* teams whose agents are configured with domain tools; the manager assigns
\* tasks and sessions end at their turn limit, with one session more than
\* elsewhere so that the manager is run again after a batch
InitTools ==
  \E tools \in [Agents -> SUBSET DomainToolNames] :
    InitConfig(MaxSessions + 1, Agents, FALSE, tools)

NextTools ==
  \/ RunStart
  \/ LoopSteps
  \/ \E assignee \in Agents : AssignTask(Manager, assignee)
  \/ SessionEnds

SpecTools == InitTools /\ [][NextTools]_vars

\* the same program with stop() requested at any await
NextStop == Next \/ Stop \/ StopResolves

SpecStop == Init /\ [][NextStop]_vars

\* ------------------------------------------------------------------------
\* Properties
\* ------------------------------------------------------------------------
TaskIdx == 1..Len(tasks)
MsgIdx == 1..Len(messages)

activeTasksOf(a) ==
  {i \in TaskIdx : tasks[i].assignee = a /\ tasks[i].status = "active"}

HasFired(evs, ev, id) == \E j \in 1..Len(evs) : evs[j].ev = ev /\ evs[j].id = id

\* C1: every agent id is the assignee of at most one task with status
\* "active".
C1_AtMostOneActiveTask ==
  \A a \in Recipients : Cardinality(activeTasksOf(a)) <= 1

\* assign_task has targeted an agent that already held an active task
C1_Witness ==
  /\ lastOp.op = "assign_task"
  /\ \E i, j \in TaskIdx :
       /\ i < j
       /\ tasks[i].assignee = tasks[j].assignee
       /\ tasks[i].status = "active"
       /\ tasks[j].id = lastOp.id

\* C2: in every step each task keeps its place and id, and its status stays
\* the same or moves queued -> active or active -> completed.
C2_TaskStatusMonotonic ==
  [][/\ Len(tasks') >= Len(tasks)
     /\ \A i \in TaskIdx :
          /\ tasks'[i].id = tasks[i].id
          /\ \/ tasks'[i].status = tasks[i].status
             \/ tasks[i].status = "queued" /\ tasks'[i].status = "active"
             \/ tasks[i].status = "active" /\ tasks'[i].status = "completed"]_vars

\* a completion has just promoted a queued task: one task of the agent is
\* completed, the next is active, a third still waits
C2_Witness ==
  /\ lastOp.op = "task_complete"
  /\ \E i, j, k \in TaskIdx :
       /\ tasks[i].status = "completed"
       /\ tasks[j].status = "active"
       /\ tasks[k].status = "queued"
       /\ HasFired(fired, "taskActivated", tasks[j].id)

\* C3: for every agent, status = "blocked" if and only if blockedOn is set.
C3_BlockedIffBlockedOn ==
  \A a \in Agents :
    (agentStates[a].status = "blocked") <=> (agentStates[a].blockedOn # NoId)


\* index of the task with the given id in ts, 0 if there is none
TaskAt(ts, id) == FindIndex({i \in 1..Len(ts) : ts[i].id = id})

queuedTasksOf(a) ==
  {i \in TaskIdx : tasks[i].assignee = a /\ tasks[i].status = "queued"}

activations(evs) == {j \in 1..Len(evs) : evs[j].ev = "taskActivated"}

\* the step in which agent a's session ended by calling task_complete
TaskCompleteStep(a) ==
  /\ session.agent = a
  /\ session' = NoSession
  /\ lastOp'.op = "task_complete"

\* C4: assign_task to an agent with no currentTask creates the task active,
\* binds it as currentTask with status working and fires the activation event
\* in the same step; to an agent with a currentTask it creates the task
\* queued, leaves the assignee's state unchanged and fires no activation
\* event; an activation event is only ever fired in the step in which its
\* task becomes active.
C4_AssignTaskActivation ==
  [][/\ Len(tasks') = Len(tasks) + 1 =>
          LET t == tasks'[Len(tasks')]
              before == agentStates[t.assignee]
              after == agentStates'[t.assignee]
          IN /\ lastOp'.op = "assign_task"
             /\ HasFired(fired', "taskCreated", t.id)
             /\ IF before.currentTask = NoId
                THEN /\ t.status = "active"
                     /\ after.currentTask = t.id
                     /\ after.status = "working"
                     /\ HasFired(fired', "taskActivated", t.id)
                ELSE /\ t.status = "queued"
                     /\ after = before
                     /\ ~HasFired(fired', "taskActivated", t.id)
     /\ \A j \in activations(fired') :
          LET now == TaskAt(tasks', fired'[j].id)
              was == TaskAt(tasks, fired'[j].id)
          IN /\ now # 0
             /\ tasks'[now].status = "active"
             /\ was # 0 => tasks[was].status = "queued"]_vars

\* assign_task has just queued a task behind the assignee's current one
C4_Witness ==
  /\ lastOp.op = "assign_task"
  /\ lastOp.result = "queued"
  /\ HasFired(fired, "taskCreated", lastOp.id)
  /\ ~HasFired(fired, "taskActivated", lastOp.id)
  /\ \E i \in TaskIdx :
       /\ tasks[i].id = lastOp.id
       /\ agentStates[tasks[i].assignee].currentTask \notin {NoId, lastOp.id}

FifoActivation ==
  \A i, j \in TaskIdx :
    (i < j /\ tasks[i].assignee = tasks[j].assignee /\ tasks[j].status # "queued")
      => tasks[i].status # "queued"

\* C5: when a non-manager agent completes its current task and has queued
\* tasks, exactly its oldest queued task becomes active and its currentTask
\* (status working), one activation event fires, for that task, and its other
\* queued tasks stay queued; no task of an agent leaves the queue before an
\* older task of the same agent.
C5_PromoteOldestQueued ==
  [][/\ \A a \in Agents \ {Manager} :
          (/\ TaskCompleteStep(a)
           /\ agentStates[a].currentTask # NoId
           /\ queuedTasksOf(a) # {})
          => LET q == CHOOSE i \in queuedTasksOf(a) :
                         \A j \in queuedTasksOf(a) : i <= j
             IN /\ tasks'[q].status = "active"
                /\ agentStates'[a].currentTask = tasks[q].id
                /\ agentStates'[a].status = "working"
                /\ Cardinality(activations(fired')) = 1
                /\ HasFired(fired', "taskActivated", tasks[q].id)
                /\ \A i \in queuedTasksOf(a) \ {q} : tasks'[i].status = "queued"
     /\ FifoActivation']_vars

\* a worker with two queued tasks has completed its current task
C5_Witness ==
  /\ lastOp.op = "task_complete"
  /\ lastOp.agent # Manager
  /\ \E i, j, k \in TaskIdx :
       /\ i < j /\ j < k
       /\ tasks[i].assignee = lastOp.agent /\ tasks[i].id = lastOp.id
       /\ tasks[j].assignee = lastOp.agent /\ tasks[j].status = "active"
       /\ tasks[k].assignee = lastOp.agent /\ tasks[k].status = "queued"
       /\ agentStates[lastOp.agent].currentTask = tasks[j].id

\* C6: when a non-manager agent holding a currentTask ends its session with
\* task-complete and summary s, that task becomes completed with completedAt
\* and completionSummary = s, the completion event fires, exactly one message
\* is appended, a pending tell from the agent to the task's creator
\* containing s, and without a queued task the agent ends idle with no
\* currentTask.
C6_CompletionNotifies ==
  [][\A a \in Agents \ {Manager} :
       (TaskCompleteStep(a) /\ agentStates[a].currentTask # NoId)
       => LET k == TaskAt(tasks, agentStates[a].currentTask)
              s == lastOp'.result
              n == messages'[Len(messages')]
          IN /\ k # 0
             /\ tasks'[k].status = "completed"
             /\ tasks'[k].completedAt
             /\ tasks'[k].completionSummary = s
             /\ HasFired(fired', "taskCompleted", tasks[k].id)
             /\ Len(messages') = Len(messages) + 1
             /\ \A i \in MsgIdx : messages'[i] = messages[i]
             /\ n.type = "tell"
             /\ n.status = "pending"
             /\ n.from = a
             /\ n.to = tasks[k].createdBy
             /\ n.content = <<"completed", tasks[k].id, s>>
             /\ HasFired(fired', "messageSent", n.id)
             /\ queuedTasksOf(a) = {} =>
                  /\ agentStates'[a].status = "idle"
                  /\ agentStates'[a].currentTask = NoId]_vars

\* a worker without queued tasks has completed its task and is idle
C6_Witness ==
  /\ lastOp.op = "task_complete"
  /\ lastOp.agent # Manager
  /\ lastOp.id # NoId
  /\ agentStates[lastOp.agent].status = "idle"
  /\ agentStates[lastOp.agent].currentTask = NoId
  /\ messages # <<>>
  /\ messages[Len(messages)].status = "pending"
  /\ messages[Len(messages)].type = "tell"

\* C7: when the manager ends a session with task-complete, goalComplete
\* becomes true, goalSummary is recorded, the goal-complete event fires, and
\* no task, no message and no agent's status/currentTask/blockedOn changes.
C7_ManagerCompletesGoal ==
  [][TaskCompleteStep(Manager)
       => /\ goalComplete'
          /\ goalSummary' = lastOp'.result
          /\ fired' = <<Event("goalComplete", NoId, lastOp'.result)>>
          /\ tasks' = tasks
          /\ messages' = messages
          /\ \A b \in Agents :
               /\ agentStates'[b].status = agentStates[b].status
               /\ agentStates'[b].currentTask = agentStates[b].currentTask
               /\ agentStates'[b].blockedOn = agentStates[b].blockedOn]_vars

\* the manager completed the goal while holding an active task of its own
C7_Witness ==
  /\ lastOp.op = "task_complete"
  /\ lastOp.agent = Manager
  /\ goalComplete
  /\ agentStates[Manager].currentTask # NoId
  /\ \E i \in TaskIdx : tasks[i].assignee = Manager /\ tasks[i].status = "active"

\* C8: when a non-manager agent with no currentTask ends a session with
\* task-complete, the run is not an error, no task and no message is created
\* or changed, no callback fires and the agent is left idle.
C8_CompleteWithoutTask ==
  [][\A a \in Agents \ {Manager} :
       (TaskCompleteStep(a) /\ agentStates[a].currentTask = NoId)
       => /\ lastRun'.completionReason = "task_complete"
          /\ tasks' = tasks
          /\ messages' = messages
          /\ fired' = <<>>
          /\ goalComplete' = goalComplete
          /\ agentStates'[a].status = "idle"
          /\ agentStates'[a].currentTask = NoId
          /\ \A b \in Agents \ {a} : agentStates'[b] = agentStates[b]]_vars

\* a worker that was run only to answer messages ended with task-complete
\* while another agent's task was active
C8_Witness ==
  /\ lastOp.op = "task_complete"
  /\ lastOp.agent # Manager
  /\ lastOp.id = NoId
  /\ \E i \in TaskIdx : tasks[i].status = "active"

\* C9: every message the ask tool creates is appended with type ask and
\* status pending, and every message the tell tool creates is appended with
\* type tell and status delivered.
C9_AskPendingTellDelivered ==
  [][(lastOp' # lastOp /\ lastOp'.op \in {"ask", "tell"})
       => LET n == messages'[Len(messages')]
          IN /\ Len(messages') = Len(messages) + 1
             /\ n.id = lastOp'.id
             /\ n.from = lastOp'.agent
             /\ lastOp'.op = "ask" => (n.type = "ask" /\ n.status = "pending")
             /\ lastOp'.op = "tell" => (n.type = "tell" /\ n.status = "delivered")]_vars

\* a tell has just answered an ask whose sender was blocked on it
C9_Witness ==
  /\ lastOp.op = "tell"
  /\ HasFired(fired, "agentUnblocked", NoId)
  /\ \E i, j \in MsgIdx :
       /\ messages[j].id = lastOp.id
       /\ messages[j].inReplyTo = messages[i].id
       /\ messages[i].type = "ask"
       /\ messages[i].status = "delivered"

AskStep(a) ==
  /\ session.agent = a
  /\ lastOp'.op = "ask"

\* C11: when an agent's session issues ask and is suspended, the agent's
\* status becomes "blocked", its blockedOn is the id of the ask message just
\* created, its currentTask is retained, and the agent-blocked event fires
\* with that agent id and message id.
C11_AskBlocksAgent ==
  [][\A a \in Agents :
       AskStep(a)
         => LET m == messages'[Len(messages')]
            IN /\ Len(messages') = Len(messages) + 1
               /\ m.type = "ask"
               /\ m.from = a
               /\ m.id \notin {messages[i].id : i \in MsgIdx}
               /\ session' = NoSession
               /\ lastRun' = [agentId |-> a, completionReason |-> "suspended"]
               /\ agentStates'[a].status = "blocked"
               /\ agentStates'[a].blockedOn = m.id
               /\ agentStates'[a].currentTask = agentStates[a].currentTask
               /\ \E j \in 1..Len(fired') :
                     fired'[j] = Event("agentBlocked", m.id, a)]_vars

\* a worker holding an active task has just asked and is blocked on the new
\* ask with its task still bound
C11_Witness ==
  /\ lastOp.op = "ask"
  /\ lastOp.agent # Manager
  /\ agentStates[lastOp.agent].status = "blocked"
  /\ agentStates[lastOp.agent].blockedOn = lastOp.id
  /\ \E i \in TaskIdx :
       /\ tasks[i].id = agentStates[lastOp.agent].currentTask
       /\ tasks[i].status = "active"

\* the step in which an agent's session called tell
TellStep == lastOp'.op = "tell"

\* index in ms of the ask that the tell t answers, 0 if it answers none
AnsweredAsk(ms, t) ==
  FindIndex({i \in 1..Len(ms) : ms[i].id = t.inReplyTo /\ ms[i].type = "ask"})

\* agent a was unblocked by a reply with the given text from replier
Unblocked(a, replier, text) ==
  /\ agentStates'[a].blockedOn = NoId
  /\ agentStates'[a].status =
       (IF agentStates[a].currentTask # NoId THEN "working" ELSE "idle")
  /\ agentStates'[a].currentTask = agentStates[a].currentTask
  /\ Len(agentStates'[a].conversationHistory)
       = Len(agentStates[a].conversationHistory) + 1
  /\ SubSeq(agentStates'[a].conversationHistory, 1,
            Len(agentStates[a].conversationHistory))
       = agentStates[a].conversationHistory
  /\ LET turn == agentStates'[a].conversationHistory[
                    Len(agentStates'[a].conversationHistory)]
     IN turn.kind = "reply" /\ turn.from = replier /\ turn.text = text
  /\ \E j \in 1..Len(fired') : fired'[j].ev = "agentUnblocked" /\ fired'[j].who = a

\* agent a's status, blockedOn and conversation are as before the step
NotUnblocked(a) ==
  /\ agentStates'[a].status = agentStates[a].status
  /\ agentStates'[a].blockedOn = agentStates[a].blockedOn
  /\ agentStates'[a].conversationHistory = agentStates[a].conversationHistory
  /\ \A j \in 1..Len(fired') : fired'[j].ev # "agentUnblocked"

\* C12: when a tell is matched to an ask M (by explicit inReplyTo or by the
\* heuristic), M is marked delivered, and the asker's state changes if and
\* only if the asker's blockedOn equals M's id: then blockedOn is cleared,
\* status becomes "working" if the asker still has a currentTask and "idle"
\* otherwise, one conversation turn containing the reply text is appended and
\* the agent-unblocked event fires; otherwise the asker's status, blockedOn
\* and conversation are unchanged.
C12_MatchedTellUnblocksAsker ==
  [][TellStep
       => LET n == messages'[Len(messages')]
              k == AnsweredAsk(messages, n)
          IN k # 0
               => /\ messages'[k].status = "delivered"
                  /\ IF agentStates[messages[k].from].blockedOn = messages[k].id
                     THEN Unblocked(messages[k].from, n.from, n.content[2])
                     ELSE NotUnblocked(messages[k].from)]_vars

\* a tell has just been matched to an ask whose sender is no longer blocked
\* on it: the ask is delivered and nobody was unblocked
C12_Witness ==
  /\ lastOp.op = "tell"
  /\ LET n == messages[Len(messages)]
         k == AnsweredAsk(messages, n)
     IN /\ k # 0
        /\ messages[k].status = "delivered"
        /\ \A j \in 1..Len(fired) : fired[j].ev # "agentUnblocked"

\* indices of the asks that make an untagged tell from S to R a reply: R is
\* blocked and the message it is blocked on is an ask from R to S
BlockedOnAskTo(S, R) ==
  {i \in MsgIdx : /\ R \in DOMAIN agentStates
                  /\ agentStates[R].status = "blocked"
                  /\ agentStates[R].blockedOn = messages[i].id
                  /\ messages[i].type = "ask"
                  /\ messages[i].from = R
                  /\ messages[i].to = S}

\* C13: a tell from S to R without inReplyTo is treated as a reply exactly
\* when R is currently blocked and R's blockedOn message is an ask from R to
\* S: then that ask and no other is marked delivered, the tell's inReplyTo is
\* set to its id and R is unblocked; in every other case the untagged tell
\* only appends the new delivered message and changes no existing message and
\* no agent state.
C13_UntaggedTellHeuristic ==
  [][\A S \in Agents : \A R \in Recipients \ {S}, text \in Texts :
       Tell(S, R, text, NoId)
         => LET n == messages'[Len(messages')]
                hits == BlockedOnAskTo(S, R)
            IN /\ Len(messages') = Len(messages) + 1
               /\ n.type = "tell" /\ n.status = "delivered"
               /\ n.from = S /\ n.to = R
               /\ \A a \in Agents \ {R} : agentStates'[a] = agentStates[a]
               /\ IF hits # {}
                  THEN /\ Cardinality(hits) = 1
                       /\ \A i \in MsgIdx :
                            messages'[i] = IF i \in hits
                                           THEN [messages[i] EXCEPT !.status = "delivered"]
                                           ELSE messages[i]
                       /\ \A i \in hits : n.inReplyTo = messages[i].id
                       /\ Unblocked(R, S, text)
                  ELSE /\ \A i \in MsgIdx : messages'[i] = messages[i]
                       /\ n.inReplyTo = NoId
                       /\ agentStates' = agentStates
                       /\ \A j \in 1..Len(fired') :
                            fired'[j].ev \notin {"agentUnblocked", "messageDelivered"}]_vars

\* a worker's tell has just answered the ask the manager was blocked on: the
\* tell carries the ask's id, the ask is delivered and the manager, who
\* holds no task, is idle with the reply as its last conversation turn
C13_Witness ==
  /\ lastOp.op = "tell"
  /\ lastOp.agent # Manager
  /\ LET n == messages[Len(messages)]
         k == AnsweredAsk(messages, n)
         h == agentStates[Manager].conversationHistory
     IN /\ k # 0
        /\ messages[k].from = Manager /\ messages[k].to = n.from
        /\ n.to = Manager
        /\ messages[k].status = "delivered"
        /\ agentStates[Manager].blockedOn = NoId
        /\ agentStates[Manager].status = "idle"
        /\ h # <<>> /\ h[Len(h)].kind = "reply" /\ h[Len(h)].from = n.from

\* the step in which deliverMessageReply was called
DeliverStep == lastOp'.op = "deliverMessageReply"

\* C14: deliverMessageReply called with a message id that does not exist, or
\* that names a message whose type is not ask, changes no task, no message
\* and no agent state, fires no callback and returns without throwing.
C14_ReplyToNoAskIgnored ==
  [][(DeliverStep /\ lastOp'.id \notin AskIds(messages))
       => /\ UNCHANGED <<tasks, messages, agentStates, goalComplete, goalSummary>>
          /\ fired' = <<>>
          /\ inFlight' = inFlight
          /\ lastOp'.result = "ignored"]_vars

\* deliverMessageReply has just been called with the id of a stored tell
\* and was ignored
C14_Witness ==
  /\ lastOp.op = "deliverMessageReply"
  /\ lastOp.result = "ignored"
  /\ \E i \in MsgIdx : messages[i].id = lastOp.id /\ messages[i].type = "tell"

\* C15: deliverMessageReply(M, content) for an existing ask M appends exactly
\* one tell with status "delivered", from = M.to, to = M.from and
\* inReplyTo = M, marks M delivered, and unblocks M's sender (status working
\* if it has a currentTask else idle, blockedOn cleared, reply turn appended)
\* if and only if that sender's blockedOn is exactly M.
C15_ReplyToAskDelivered ==
  [][(DeliverStep /\ lastOp'.id \in AskIds(messages))
       => LET k == FindIndex({i \in MsgIdx : messages[i].id = lastOp'.id})
              M == messages[k]
              n == messages'[Len(messages')]
          IN /\ Len(messages') = Len(messages) + 1
             /\ \A i \in MsgIdx :
                  messages'[i] = IF i = k THEN [M EXCEPT !.status = "delivered"]
                                 ELSE messages[i]
             /\ n.type = "tell" /\ n.status = "delivered"
             /\ n.from = M.to /\ n.to = M.from /\ n.inReplyTo = M.id
             /\ n.id \notin {messages[i].id : i \in MsgIdx}
             /\ UNCHANGED <<tasks, goalComplete, goalSummary>>
             /\ \A a \in Agents \ {M.from} : agentStates'[a] = agentStates[a]
             /\ IF agentStates[M.from].blockedOn = M.id
                THEN Unblocked(M.from, M.to, n.content[2])
                ELSE agentStates' = agentStates]_vars

\* a reply has just been delivered to the ask an agent holding a task was
\* blocked on: the agent is working again, not blocked, with the reply as
\* its last conversation turn
C15_Witness ==
  /\ lastOp.op = "deliverMessageReply"
  /\ lastOp.result = "delivered"
  /\ \E k \in MsgIdx, a \in Agents :
       LET h == agentStates[a].conversationHistory
           n == messages[Len(messages)]
       IN /\ messages[k].id = lastOp.id
          /\ messages[k].from = a
          /\ messages[k].status = "delivered"
          /\ n.inReplyTo = lastOp.id /\ n.to = a
          /\ agentStates[a].status = "working"
          /\ agentStates[a].blockedOn = NoId
          /\ agentStates[a].currentTask # NoId
          /\ h # <<>> /\ h[Len(h)].kind = "reply"

\* C16: every observable message transition fires its hook: each message
\* appended to the store (by ask, tell, task-completion notification or
\* deliverMessageReply) fires the message-sent event for that message, and
\* each change of a message's status from pending to delivered fires the
\* message-delivered event for it, including a deliverMessageReply on an ask
\* whose sender is not currently blocked on it.
C16_MessageTransitionsFireHooks ==
  [][/\ \A i \in (Len(messages) + 1)..Len(messages') :
          HasFired(fired', "messageSent", messages'[i].id)
     /\ \A i \in MsgIdx :
          (messages[i].status = "pending" /\ messages'[i].status = "delivered")
            => HasFired(fired', "messageDelivered", messages[i].id)]_vars

\* C17: every callback the core fires is awaited before the core proceeds:
\* no step of the core ends (returning from a public operation or with an
\* agent session started) while a callback it started has not completed,
\* and while a callback is running the core mutates no state, starts no
\* session and returns from no operation; this includes the callbacks of
\* deliverMessageReply and the message-delivered callbacks fired when
\* pending messages are presented to an agent.
C17_CallbacksAwaited ==
  [][/\ Len(inFlight') <= Len(inFlight)
     /\ inFlight # <<>> => UNCHANGED <<teamVars, loopVars, session, sessions>>]_vars

\* run() is at the top of its while loop and the loop condition holds
IterationStarts ==
  /\ pc = "loop"
  /\ NoCall
  /\ iterations < maxIterations /\ ~goalComplete /\ ~shouldStop

\* agents blocked on a message addressed to BigBoss or to an id that has no
\* AgentState
ExternallyBlocked ==
  {a \in Agents :
     /\ agentStates[a].status = "blocked"
     /\ \E i \in MsgIdx :
          /\ messages[i].id = agentStates[a].blockedOn
          /\ (messages[i].to = BigBoss \/ messages[i].to \notin Agents)}

\* C18: whenever, at the start of a loop iteration, some agent is blocked on
\* a message addressed to "BigBoss" or to an id that has no AgentState, run()
\* returns in that iteration with complete=false and blockedAgents equal to
\* exactly the externally blocked agents, without running any agent in that
\* iteration, even if other agents have active tasks or pending messages.
C18_ExternalBlockReturns ==
  [][(IterationStarts /\ ExternallyBlocked # {})
       => /\ pc' = "idle"
          /\ runResult'.returned
          /\ runResult'.complete = FALSE
          /\ runResult'.iterations = iterations + 1
          /\ {runResult'.blockedAgents[j].agentId :
                j \in 1..Len(runResult'.blockedAgents)} = ExternallyBlocked
          /\ \A j \in 1..Len(runResult'.blockedAgents) :
               LET b == runResult'.blockedAgents[j]
               IN b.messageId = agentStates[b.agentId].blockedOn
          /\ Len(runResult'.blockedAgents) = Cardinality(ExternallyBlocked)
          /\ session' = NoSession
          /\ sessions' = sessions
          /\ UNCHANGED teamVars]_vars

\* run() has just returned because the manager is blocked on an ask to
\* BigBoss, although a worker holds an active task it could work on
C18_Witness ==
  /\ lastOp.op = "run"
  /\ pc = "idle"
  /\ runResult.returned
  /\ ~runResult.complete
  /\ Len(runResult.blockedAgents) = 1
  /\ runResult.blockedAgents[1].agentId = Manager
  /\ \E i \in MsgIdx : /\ messages[i].id = runResult.blockedAgents[1].messageId
                        /\ messages[i].to = BigBoss
  /\ \E a \in Agents \ {Manager}, i \in TaskIdx :
       /\ agentStates[a].status = "working"
       /\ agentStates[a].currentTask = tasks[i].id
       /\ tasks[i].status = "active"

\* the only session so far is the seed session of the first run() on the
\* freshly constructed team
FirstSeedSession == sessions = 1

\* C19: on a freshly constructed team (in particular one with zero workers),
\* if the manager's seed session ends with task-complete, goalComplete
\* becomes true and run() returns complete=true with an empty blockedAgents
\* list, with iterations = 0 and without running any other agent.
C19_SeedCompletesGoal ==
  [][/\ (FirstSeedSession /\ TaskCompleteStep(Manager))
          => /\ goalComplete'
             /\ pc' = "loop"
             /\ lastRun' = [agentId |-> Manager,
                            completionReason |-> "task_complete"]
     /\ (FirstSeedSession /\ pc = "loop" /\ NoCall
            /\ lastRun = [agentId |-> Manager, completionReason |-> "task_complete"])
          => /\ pc' = "idle"
             /\ runResult' = [returned |-> TRUE, complete |-> TRUE,
                              blockedAgents |-> <<>>, iterations |-> 0]
             /\ goalComplete'
             /\ session' = NoSession
             /\ sessions' = 1]_vars

\* on a team with zero workers the first run() has returned complete after
\* the manager's seed session, the only session that ran
C19_Witness ==
  /\ DOMAIN agentStates = {Manager}
  /\ pc = "idle"
  /\ sessions = 1
  /\ goalComplete
  /\ runResult = [returned |-> TRUE, complete |-> TRUE,
                  blockedAgents |-> <<>>, iterations |-> 0]

\* C20: run() never throws: for every initial or resumed TeamState and every
\* behaviour of the agent sessions a call to run() ends by returning a
\* result {complete, blockedAgents, iterations}, also for a resumed state
\* whose agentStates lack the configured manager.
C20_RunNeverThrows ==
  lastOp.op = "run" => lastOp.result # "throws"

\* the step in which the runtime raised an exception during agent a's run
SessionThrowStep(a) ==
  /\ session.agent = a
  /\ lastOp'.op = "session_throw"

\* the runAgent call that just returned reported an error
AfterError ==
  /\ NoCall
  /\ lastRun.completionReason = "error"

C23_StopResolvesAfterLoopExit ==
  [][(stopPending /\ ~stopPending' /\ shouldStop) => pc = "idle"]_vars

\* the step in which the manager's session called wait_for_task_completions
WaitStep == lastOp'.op = "wait_for_task_completions"

\* ids of the tasks with status active or queued
OutstandingTaskIds ==
  {tasks[i].id : i \in {j \in TaskIdx : tasks[j].status \in {"active", "queued"}}}

C25_CoordinationToolWins ==
  \A a \in Agents :
    InSession(a)
      => \A n \in coordinationTools(a) \cap domainTools[a] :
            session.tools[n] = "coordination"

\* C26: assign_task naming an assignee that has no AgentState returns a
\* structured error result instead of throwing, creates no task, changes no
\* agent state and fires no task-created or task-activated event.
C26_UnknownAssigneeRejected ==
  [][\A assignee \in Recipients :
       (assignee \notin DOMAIN agentStates /\ AssignTask(Manager, assignee))
       => /\ lastOp' = Op("assign_task", Manager, NoId, "error")
          /\ UNCHANGED <<tasks, agentStates>>
          /\ fired' = <<>>
          /\ InSession(Manager)'
          /\ UNCHANGED <<messages, goalComplete, goalSummary, lastRun>>]_vars

\* the manager, with a task already in the store, has named an unknown
\* assignee and holds the error result, its session still running
C26_Witness ==
  /\ lastOp = Op("assign_task", Manager, NoId, "error")
  /\ InSession(Manager)
  /\ tasks # <<>>

\* ------------------------------------------------------------------------
\* The default id generators, on ids as text: an id is the sequence of its
\* characters
\* ------------------------------------------------------------------------
MaxSeeded == 2
MaxIds == 4

Digits == <<"0", "1", "2", "3", "4", "5", "6", "7", "8", "9">>
IsDigit(c) == \E d \in 1..10 : Digits[d] = c
DigitVal(c) == (CHOOSE d \in 1..10 : Digits[d] = c) - 1

\* String.prototype.replace(pattern, "") with a string pattern: the first
\* occurrence of the pattern is removed, the text is kept when there is none
replace(text, pattern) ==
  LET n == Len(pattern)
      hits == {i \in 1..(Len(text) - n + 1) : SubSeq(text, i, i + n - 1) = pattern}
      at == FindIndex(hits)
  IN IF at = 0 THEN text
     ELSE SubSeq(text, 1, at - 1) \o SubSeq(text, at + n, Len(text))

\* value of a run of decimal digits
RECURSIVE DecimalValue(_)
DecimalValue(ds) ==
  IF ds = <<>> THEN 0
  ELSE 10 * DecimalValue(SubSeq(ds, 1, Len(ds) - 1)) + DigitVal(ds[Len(ds)])

\* the longest prefix of text made of digits
RECURSIVE DigitPrefix(_)
DigitPrefix(text) ==
  IF text = <<>> \/ ~IsDigit(Head(text)) THEN <<>>
  ELSE <<Head(text)>> \o DigitPrefix(Tail(text))

RECURSIVE SkipWhiteSpace(_)
SkipWhiteSpace(text) ==
  IF text # <<>> /\ Head(text) = " " THEN SkipWhiteSpace(Tail(text)) ELSE text

NaN == [nan |-> TRUE, val |-> 0]
Num(n) == [nan |-> FALSE, val |-> n]

\* parseInt(text, 10): leading white space is skipped, a sign is read, then
\* the digits up to the first character that is not one; NaN when there is
\* no digit there
parseInt(text) ==
  LET t == SkipWhiteSpace(text)
      signed == t # <<>> /\ Head(t) \in {"-", "+"}
      body == IF signed THEN Tail(t) ELSE t
      ds == DigitPrefix(body)
  IN IF ds = <<>> THEN NaN
     ELSE IF signed /\ Head(t) = "-" THEN Num(0 - DecimalValue(ds))
     ELSE Num(DecimalValue(ds))

\* String(n) for a positive integer
RECURSIVE String(_)
String(n) ==
  IF n < 10 THEN <<Digits[n + 1]>>
  ELSE String(n \div 10) \o <<Digits[(n % 10) + 1]>>

RECURSIVE padStart(_, _, _)
padStart(text, targetLength, fill) ==
  IF Len(text) >= targetLength THEN text
  ELSE padStart(<<fill>> \o text, targetLength, fill)

\* parseInt(id.replace(prefix, ""), 10)
numericSuffix(id, prefix) == parseInt(replace(id, prefix))

\* the reduce over the existing ids, from 0: num > max ? num : max, which a
\* NaN never wins
RECURSIVE maxIdOf(_, _)
maxIdOf(existingIds, prefix) ==
  IF existingIds = <<>> THEN 0
  ELSE LET max == maxIdOf(SubSeq(existingIds, 1, Len(existingIds) - 1), prefix)
           num == numericSuffix(existingIds[Len(existingIds)], prefix)
       IN IF ~num.nan /\ num.val > max THEN num.val ELSE max

TaskPrefix == <<"T", "-">>
MessagePrefix == <<"M", "-">>

defaultId(existingIds, prefix) ==
  prefix \o padStart(String(maxIdOf(existingIds, prefix) + 1), 4, "0")

\* ids found in stores that were seeded or edited outside the coordinator:
\* padded and gapped ones, unpadded ones, and ids of other forms
SeededSuffixes ==
  { <<"0", "0", "0", "1">>, <<"0", "0", "0", "3">>, <<"7">> }
OtherIds ==
  { <<"t", "a", "s", "k", "-", "2">>, <<"5">>, <<"T", "-", "4", "x">> }
SeededIds(prefix) == {prefix \o sfx : sfx \in SeededSuffixes} \cup OtherIds

NoDuplicates(ids) ==
  \A i, j \in 1..Len(ids) : ids[i] = ids[j] => i = j

SeededStores(prefix) ==
  {ids \in UNION {[1..n -> SeededIds(prefix)] : n \in 0..MaxSeeded} :
     NoDuplicates(ids)}

InitIds ==
  /\ InitTeam(MaxSessions, Agents, FALSE, NoDomainTools)
  /\ \E ts \in SeededStores(TaskPrefix), ms \in SeededStores(MessagePrefix) :
       idStore = [task |-> ts, message |-> ms]
  /\ peer = NoPeer

\* a task is created in the seeded store under the default generator
GenerateTaskId ==
  /\ Len(idStore.task) < MaxIds
  /\ idStore' = [idStore EXCEPT
                   !.task = Append(@, defaultId(idStore.task, TaskPrefix))]
  /\ UNCHANGED <<teamVars, loopVars, session, lastRun, sessions, fired,
                 lastOp, asyncCallbacks, sessionLimit, domainTools, resumed,
                 peer, inFlight, stopPending, activeAgentSessions>>

\* a message is created in the seeded store under the default generator
GenerateMessageId ==
  /\ Len(idStore.message) < MaxIds
  /\ idStore' = [idStore EXCEPT
                   !.message = Append(@, defaultId(idStore.message, MessagePrefix))]
  /\ UNCHANGED <<teamVars, loopVars, session, lastRun, sessions, fired,
                 lastOp, asyncCallbacks, sessionLimit, domainTools, resumed,
                 peer, inFlight, stopPending, activeAgentSessions>>

NextIds == GenerateTaskId \/ GenerateMessageId

SpecIds == InitIds /\ [][NextIds]_vars

\* an id of the form prefix + digits
MatchesForm(id, prefix) ==
  /\ Len(id) > Len(prefix)
  /\ SubSeq(id, 1, Len(prefix)) = prefix
  /\ \A i \in (Len(prefix) + 1)..Len(id) : IsDigit(id[i])

\* one plus the largest suffix among the ids of the form, 1 when none
NextSuffix(existingIds, prefix) ==
  1 + Max({0} \cup {DecimalValue(SubSeq(existingIds[i], Len(prefix) + 1,
                                         Len(existingIds[i]))) :
                     i \in {j \in 1..Len(existingIds) :
                              MatchesForm(existingIds[j], prefix)}})

AllocatedAsStated(before, after, prefix) ==
  after # before =>
    /\ after[Len(after)] = prefix \o padStart(String(NextSuffix(before, prefix)), 4, "0")
    /\ NoDuplicates(after)

\* C27: with the default generators each newly allocated task id is "T-"
\* (message id "M-") followed by one plus the maximum numeric suffix among
\* the existing ids of that form (1 when none), zero-padded to 4 digits,
\* ids that do not match the form being ignored; no two tasks and no two
\* messages then share an id, whatever gapped or seeded ids the store held.
C27_DefaultIdAllocation ==
  [][/\ AllocatedAsStated(idStore.task, idStore'.task, TaskPrefix)
     /\ AllocatedAsStated(idStore.message, idStore'.message, MessagePrefix)]_vars

IdsDistinct == NoDuplicates(idStore.task) /\ NoDuplicates(idStore.message)

\* ------------------------------------------------------------------------
\* Saving the state and resuming from it. A Map is its keys in insertion
\* order together with the value of each key.
\* ------------------------------------------------------------------------
EmptyMap == [keys |-> <<>>, get |-> <<>>]

\* Map.prototype.set: a new key goes last, a known key keeps its place
mapSet(map, key, value) ==
  [keys |-> IF key \in DOMAIN map.get THEN map.keys ELSE Append(map.keys, key),
   get |-> [k \in DOMAIN map.get \cup {key} |->
              IF k = key THEN value ELSE map.get[k]]]

\* state.agentStates as a Map: the manager was inserted first, then the
\* team in the order of config.team
agentStatesMap(states) ==
  [keys |-> SelectSeq(InsertionOrder, LAMBDA a : a \in DOMAIN states),
   get |-> states]

\* Array.from(map.entries())
entries(map) ==
  [i \in 1..Len(map.keys) |-> <<map.keys[i], map.get[map.keys[i]]>>]

\* new Map(pairs): the pairs are inserted first to last
RECURSIVE newMap(_)
newMap(pairs) ==
  IF pairs = <<>> THEN EmptyMap
  ELSE LET n == Len(pairs)
       IN mapSet(newMap(SubSeq(pairs, 1, n - 1)), pairs[n][1], pairs[n][2])

\* the TeamState held by the coordinator
TeamState ==
  [tasks |-> tasks, messages |-> messages,
   agentStates |-> agentStatesMap(agentStates),
   goalComplete |-> goalComplete, goalSummary |-> goalSummary]

\* {...state, agentStates: Array.from(state.agentStates.entries())}
serialize(state) == [state EXCEPT !.agentStates = entries(@)]

\* {...loaded, agentStates: new Map(loaded.agentStates)}
deserialize(loaded) == [loaded EXCEPT !.agentStates = newMap(@)]

\* the state of a coordinator created without resumeFrom
freshState(ids) ==
  [tasks |-> <<>>, messages |-> <<>>,
   agentStates |-> agentStatesMap([a \in ids |-> InitAgentState(a)]),
   goalComplete |-> FALSE, goalSummary |-> Undefined]

\* variant: the agent states are initialised whether or not the
\* coordinator resumes
resumedStateReinitialised(resumeFrom) ==
  [resumeFrom EXCEPT !.agentStates = freshState(Agents).agentStates]

\* config.resumeFrom || {...}: the state of a coordinator created with
\* resumeFrom, whose agent states are not initialised again
resumedState(resumeFrom) == resumeFrom

\* a new coordinator created with resumeFrom takes the place of the one the
\* embedding program has used so far: it holds the state it was given and
\* a closure of its own, with its stop flag and no value returned by run()
ResumeFrom(resumeFrom) ==
  /\ pc = "idle"
  /\ NoCall
  /\ inFlight = <<>>
  /\ ~stopPending
  /\ runResult.returned
  /\ runResult.blockedAgents # <<>>
  /\ ~resumed
  /\ LET state == resumedState(resumeFrom)
     IN /\ tasks' = state.tasks
        /\ messages' = state.messages
        /\ agentStates' = state.agentStates.get
        /\ goalComplete' = state.goalComplete
        /\ goalSummary' = state.goalSummary
  /\ resumed' = TRUE
  /\ shouldStop' = FALSE
  /\ iterations' = 0
  /\ runResult' = NoResult
  /\ lastRun' = NoRun
  /\ fired' = <<>>
  /\ lastOp' = Op("resume", Undefined, NoId, Undefined)
  /\ activeAgentSessions' = {}
  /\ UNCHANGED <<pc, workQueue, respQueue, session, sessions, asyncCallbacks,
                 sessionLimit, domainTools, idStore, inFlight, stopPending>>

\* after a run that returned with agents blocked, the embedding program
\* saves the state, loads it and creates a new coordinator from it, which it
\* uses from then on
Resume ==
  /\ ResumeFrom(deserialize(serialize(TeamState)))
  /\ peer' = peer

NextResume == Next \/ Resume

SpecResume == Init /\ [][NextResume]_vars

ResumeStep == lastOp'.op = "resume"

\* C28: for every reachable TeamState, converting agentStates to an ordered
\* list of (id, AgentState) pairs and back yields an equal state with the
\* same agent iteration order; a coordinator resumed from it holds the same
\* tasks, messages, agent states and goal, differs from the original only
\* in what run() sets before reading, and deliverMessageReply then unblocks
\* the agent that was blocked before the save and run() starts with the
\* manager as it does in the original.
C28_SaveAndResume ==
  /\ [](deserialize(serialize(TeamState)) = TeamState)
  /\ [][
     /\ ResumeStep
          => /\ UNCHANGED <<teamVars, pc, workQueue, respQueue, session>>
             /\ ~shouldStop' /\ iterations' = 0 /\ ~runResult'.returned
     /\ (pc = "idle" /\ pc' # "idle")
          => /\ ~shouldStop' /\ iterations' = 0 /\ ~runResult'.returned
             /\ InSession(Manager)'
             /\ UNCHANGED <<tasks, goalComplete, goalSummary>>
     /\ (DeliverStep /\ lastOp'.id \in AskIds(messages))
          => LET k == FindIndex({i \in MsgIdx : messages[i].id = lastOp'.id})
                 asker == messages[k].from
             IN agentStates[asker].blockedOn = messages[k].id
                  => /\ agentStates'[asker].blockedOn = NoId
                     /\ agentStates'[asker].status =
                          IF agentStates[asker].currentTask # NoId
                          THEN "working" ELSE "idle"]_vars

\* a coordinator resumed from a saved state in which an agent was blocked on
\* its ask: the reply was delivered to the new coordinator, the agent was
\* unblocked, and the run that followed has started the manager
C28_Witness ==
  /\ resumed
  /\ InSession(Manager)
  /\ iterations = 0
  /\ \E k \in MsgIdx, a \in Agents :
       LET h == agentStates[a].conversationHistory
       IN /\ messages[k].type = "ask" /\ messages[k].from = a
          /\ messages[k].status = "delivered"
          /\ messages[Len(messages)].inReplyTo = messages[k].id
          /\ agentStates[a].blockedOn = NoId
          /\ agentStates[a].status = "working"
          /\ h # <<>> /\ h[Len(h)].kind = "reply"

\* ------------------------------------------------------------------------
\* Two coordinators in one process. The operations of the model act on one
\* of them; peer is the other one: whether its state is the very object the
\* first one holds, and what its own object holds when it is not.
\* ------------------------------------------------------------------------

\* a second coordinator is created without resumeFrom
CreateSecond ==
  /\ pc = "idle"
  /\ NoCall
  /\ ~peer.created
  /\ peer' = [created |-> TRUE, sameObject |-> FALSE,
              state |-> freshState(Agents)]
  /\ fired' = <<>>
  /\ lastOp' = Op("createAgentTeam", Undefined, NoId, Undefined)
  /\ UNCHANGED <<teamVars, loopVars, session, lastRun, sessions,
                 asyncCallbacks, sessionLimit, domainTools, idStore, resumed,
                 inFlight, stopPending, activeAgentSessions>>

\* the state is saved and loaded, and a second coordinator is created from
\* the loaded copy; the first one keeps its own object
ResumeFromCopy ==
  /\ ~peer.created
  /\ ResumeFrom(deserialize(serialize(TeamState)))
  /\ peer' = [created |-> TRUE, sameObject |-> FALSE, state |-> TeamState]

\* a second coordinator is created with resumeFrom set to the state the first
\* one handed out (the value stop() resolves with): config.resumeFrom is
\* taken as the state, so both hold one object
ResumeFromLive ==
  /\ ~peer.created
  /\ ResumeFrom(TeamState)
  /\ peer' = [created |-> TRUE, sameObject |-> TRUE, state |-> TeamState]

NextPeers == Next \/ CreateSecond \/ ResumeFromCopy \/ ResumeFromLive

SpecPeers == Init /\ [][NextPeers]_vars

\* the state observed through the other coordinator
peerState == IF peer.sameObject THEN TeamState ELSE peer.state

\* C29: two coordinators never share mutable state: for any two teams
\* created in one process, those created with a resumeFrom state included,
\* an operation performed on one leaves the tasks, messages, agent states
\* and goal flag observed through the other unchanged.
C29_InstancesShareNothing ==
  [][(peer.created /\ peer' = peer) => peerState' = peerState]_vars

\* agents whose status is blocked
BlockedAgents == {a \in Agents : agentStates[a].status = "blocked"}

\* agents that are not blocked and have a pending message addressed to them
CanRespond ==
  {a \in Agents :
     /\ agentStates[a].status # "blocked"
     /\ \E i \in MsgIdx : messages[i].to = a /\ messages[i].status = "pending"}

\* agents that are not blocked and hold an active task
HaveWork ==
  {a \in Agents :
     /\ agentStates[a].status # "blocked"
     /\ \E i \in TaskIdx : /\ tasks[i].id = agentStates[a].currentTask
                            /\ tasks[i].status = "active"}

\* an iteration starts with no work items and every blocked agent, at least
\* one, blocked on another agent
NoWorkButBlocked ==
  /\ IterationStarts
  /\ BlockedAgents # {}
  /\ ExternallyBlocked = {}
  /\ HaveWork = {}

\* C30: at the start of an iteration with no work items and at least one
\* internally blocked agent, run() runs a non-blocked agent that has a
\* pending inbound message whenever one exists and then re-evaluates; it
\* ends the run as deadlocked (complete=false, blockedAgents listing the
\* blocked agents, no agent run in that iteration) if and only if no
\* non-blocked agent has a pending inbound message.
C30_RespondersOrDeadlock ==
  [][/\ (NoWorkButBlocked /\ CanRespond # {})
          => /\ pc' = "resp"
             /\ ~runResult'.returned
             /\ respQueue' # <<>>
             /\ {respQueue'[j] : j \in 1..Len(respQueue')} = CanRespond
             /\ session' = NoSession
     /\ (pc = "resp" /\ NoCall /\ session' # NoSession)
          => /\ respQueue # <<>>
             /\ session'.agent = Head(respQueue)
             /\ respQueue' = Tail(respQueue)
             /\ pc' = "resp"
     /\ (pc = "resp" /\ pc' # "resp")
          => /\ pc' = "loop"
             /\ respQueue = <<>> \/ shouldStop
             /\ session' = NoSession
             /\ ~runResult'.returned
     /\ (NoWorkButBlocked /\ CanRespond = {})
          => /\ pc' = "idle"
             /\ runResult'.returned
             /\ runResult'.complete = FALSE
             /\ runResult'.iterations = iterations + 1
             /\ {runResult'.blockedAgents[j].agentId :
                   j \in 1..Len(runResult'.blockedAgents)} = BlockedAgents
             /\ Len(runResult'.blockedAgents) = Cardinality(BlockedAgents)
             /\ \A j \in 1..Len(runResult'.blockedAgents) :
                  LET b == runResult'.blockedAgents[j]
                  IN b.messageId = agentStates[b.agentId].blockedOn
             /\ session' = NoSession
             /\ sessions' = sessions
             /\ UNCHANGED teamVars]_vars

\* run() has just returned deadlocked: the manager and a worker are blocked
\* on asks to each other, the worker having been run as a responder to the
\* manager's ask, and nobody is left to answer
C30_Witness ==
  /\ lastOp.op = "run"
  /\ pc = "idle"
  /\ runResult.returned
  /\ ~runResult.complete
  /\ Len(runResult.blockedAgents) = 2
  /\ BlockedAgents = Agents
  /\ ExternallyBlocked = {}
  /\ \E i, j \in MsgIdx :
       /\ messages[i].from = Manager /\ messages[i].to # Manager
       /\ messages[i].id = agentStates[Manager].blockedOn
       /\ messages[j].from = messages[i].to /\ messages[j].to = Manager
       /\ messages[j].id = agentStates[messages[j].from].blockedOn

\* ------------------------------------------------------------------------
\* The run loop with one session more than elsewhere, so that an iteration
\* can run the manager, a worker and the manager again: the manager assigns
\* tasks, agents complete them or end at their turn limit
\* ------------------------------------------------------------------------
InitBatch == InitStateUpTo(MaxSessions + 1, Agents, FALSE)

NextBatch ==
  \/ RunStart
  \/ LoopSteps
  \/ \E assignee \in Agents : AssignTask(Manager, assignee)
  \/ \E a \in Agents, text \in Texts : TaskComplete(a, text)
  \/ SessionEnds

SpecBatch == InitBatch /\ [][NextBatch]_vars

\* the manager, run to reassess, has returned and run() looks at the result
AfterReassess == pc = "mgrCheck" /\ NoCall

\* C31: at the start of an iteration with no work items and no blocked
\* agents, run() runs the manager; it then stops if the manager completed
\* the goal, and stops if afterwards there are still no work items and no
\* blocked agents; if the manager's reassessment produced work items, those
\* agents are executed before the manager is run again.
C31_ReassessThenWork ==
  [][/\ (IterationStarts /\ HaveWork = {} /\ BlockedAgents = {})
          => pc' = "reassess" /\ ~runResult'.returned
     /\ (pc = "reassess" /\ NoCall /\ session' # NoSession)
          => session'.agent = Manager /\ pc' = "mgrCheck"
     /\ (AfterReassess /\ goalComplete)
          => pc' = "idle" /\ runResult'.returned /\ runResult'.complete
     /\ (AfterReassess /\ HaveWork = {} /\ BlockedAgents = {})
          => pc' = "idle" /\ runResult'.returned
     /\ (AfterReassess /\ ~goalComplete /\ HaveWork # {}
           /\ lastRun.completionReason # "task_complete")
          => /\ pc' = "work"
             /\ {workQueue'[j] : j \in 1..Len(workQueue')} = HaveWork]_vars

\* names under which the tools of an agent session are recorded
ToolOps ==
  {"ask", "tell", "assign_task", "wait_for_task_completions", "task_complete"}

\* C32: at every moment at most one agent session is in flight: the run
\* loop starts an agent session only after the previously started session
\* has completed or suspended, so no two tool executions of different
\* agents interleave on the shared state.
C32_OneSessionInFlight ==
  [][/\ (sessions' # sessions)
          => /\ session = NoSession
             /\ session' # NoSession
             /\ sessions' = sessions + 1
     /\ (session # NoSession /\ session' # NoSession)
          => session'.agent = session.agent /\ sessions' = sessions
     /\ (lastOp'.op \in ToolOps)
          => /\ InSession(lastOp'.agent)
             /\ session' = NoSession \/ session' = session]_vars

\* the worker's session is in flight, started by the run loop after the
\* manager's seed session had ended with a task assigned to the worker
C32_Witness ==
  /\ sessions = 2
  /\ lastOp.op = "runAgent"
  /\ \E a \in Agents \ {Manager} :
       /\ InSession(a)
       /\ agentStates[a].currentTask # NoId
  /\ pc = "work"

\* ------------------------------------------------------------------------
\* A team of a manager and two workers: the manager assigns tasks, a worker
\* asks the other worker, agents complete tasks or end at their turn limit
\* ------------------------------------------------------------------------
LargeTeamSessions == 5
LargeTeamMessages == 4

InitLargeTeam ==
  InitConfig(LargeTeamSessions, LargeAgents, FALSE, [a \in LargeAgents |-> {}])

NextLargeTeam ==
  \/ RunStart
  \/ LoopSteps
  \/ Responders
  \/ \E a \in LargeAgents :
       \E to \in LargeAgents \ {Manager, a}, text \in Texts :
         AskUpTo(LargeTeamMessages, a, to, text)
  \/ \E a \in LargeAgents \ {Manager}, text \in Texts :
       \E r \in AskIds(messages) :
         TellUpTo(LargeTeamMessages, a, Manager, text, r)
  \/ \E assignee \in LargeAgents \ {Manager} : AssignTask(Manager, assignee)
  \/ \E a \in LargeAgents, text \in Texts :
       TaskCompleteUpTo(LargeTeamMessages, a, text)
  \/ \E a \in LargeAgents : SessionOther(a, "max_turns")

SpecLargeTeam == InitLargeTeam /\ [][NextLargeTeam]_vars

\* C33: once goalComplete becomes true during a run(), that run() starts no
\* further agent session before it returns (this covers the work batch, the
\* responder pass and the post-batch manager pass).
C33_NoSessionAfterGoal ==
  [][(goalComplete /\ pc # "idle") => sessions' = sessions]_vars

\* ------------------------------------------------------------------------
\* stop() requested during a run whose sessions all end
\* ------------------------------------------------------------------------
NextStopRun ==
  \/ RunStart
  \/ LoopSteps
  \/ Responders
  \/ \E a \in Agents : \E to \in Agents \ {a}, text \in Texts : Ask(a, to, text)
  \/ \E assignee \in Agents \ {Manager} : AssignTask(Manager, assignee)
  \/ \E a \in Agents, text \in Texts : TaskComplete(a, text)
  \/ SessionEnds
  \/ Stop
  \/ StopResolves

\* run() keeps executing, and a session asked to stop ends
SpecStopRun ==
  /\ InitBatch
  /\ [][NextStopRun]_vars
  /\ WF_vars(LoopSteps \/ Responders)
  /\ WF_vars(SessionEnds)

StopRequested == shouldStop /\ pc # "idle"

C35_PostBatchManagerPass ==
  [][(pc = "post" /\ NoCall /\ ~goalComplete /\ ~shouldStop)
       => /\ session'.agent = Manager
          /\ \A i \in pendingFor(messages, Manager) :
               messages'[i].status = "delivered"]_vars

\* C36: for every agent, currentTask is set if and only if some task
\* assigned to that agent has status "active", and then currentTask is that
\* task's id; no agent's currentTask names a queued or completed task, a
\* task assigned to another agent, or a missing task.
C36_CurrentTaskIsTheActiveTask ==
  \A a \in DOMAIN agentStates :
    /\ agentStates[a].currentTask # NoId <=> activeTasksOf(a) # {}
    /\ \A i \in activeTasksOf(a) : tasks[i].id = agentStates[a].currentTask
    /\ agentStates[a].currentTask # NoId
         => \E i \in TaskIdx :
              /\ tasks[i].id = agentStates[a].currentTask
              /\ tasks[i].assignee = a
              /\ tasks[i].status = "active"

\* a worker completed its current task and its oldest queued task, stored
\* after a task of another agent, became its current task
C36_Witness ==
  /\ lastOp.op = "task_complete"
  /\ lastOp.agent # Manager
  /\ \E i, j, k \in TaskIdx :
       /\ i < j /\ j < k
       /\ tasks[i].assignee = lastOp.agent /\ tasks[i].status = "completed"
       /\ tasks[j].assignee # lastOp.agent /\ tasks[j].status = "active"
       /\ tasks[k].assignee = lastOp.agent /\ tasks[k].status = "active"
       /\ agentStates[lastOp.agent].currentTask = tasks[k].id
       /\ agentStates[tasks[j].assignee].currentTask = tasks[j].id

\* C37: run() never starts a session for an agent whose status is "blocked":
\* a blocked agent is run again only after a reply has unblocked it, also
\* across repeated run() calls.
C37_BlockedAgentNotRun ==
  [][sessions' # sessions
       => agentStates[session'.agent].status # "blocked"]_vars

\* C38: while an agent is blocked on ask M, M has status "pending": an ask
\* becomes "delivered" only when a reply to it is matched by tell or supplied
\* by deliverMessageReply, so a recipient that was merely shown the ask is
\* still offered it as pending on its next run.
C38_BlockedOnPendingAsk ==
  \A a \in DOMAIN agentStates :
    (agentStates[a].status = "blocked" /\ agentStates[a].blockedOn # NoId)
      => \A i \in MsgIdx :
           messages[i].id = agentStates[a].blockedOn
             => messages[i].status = "pending"

\* the place in the store of the ask agent a is blocked on, 0 if there is none
BlockingAsk(a) ==
  IF agentStates[a].status = "blocked" /\ agentStates[a].blockedOn # NoId
  THEN FindIndex({i \in MsgIdx : /\ messages[i].id = agentStates[a].blockedOn
                                  /\ messages[i].type = "ask"
                                  /\ messages[i].from = a})
  ELSE 0

\* C40: an agent blocked on ask M addressed to recipient R is unblocked only
\* by a tell sent by R or by deliverMessageReply(M): a tell from any other
\* agent, even one carrying inReplyTo = M, neither marks M delivered nor
\* changes the asker's status or blockedOn.
C40_OnlyRecipientUnblocks ==
  [][\A a \in DOMAIN agentStates :
       LET k == BlockingAsk(a)
       IN k # 0
            => /\ agentStates'[a].blockedOn = NoId
                    => \/ lastOp'.op = "tell" /\ lastOp'.agent = messages[k].to
                       \/ /\ lastOp'.op = "deliverMessageReply"
                          /\ lastOp'.id = messages[k].id
               /\ (lastOp'.op = "tell" /\ lastOp'.agent # messages[k].to)
                    => /\ messages'[k].status = messages[k].status
                       /\ agentStates'[a].status = agentStates[a].status
                       /\ agentStates'[a].blockedOn = agentStates[a].blockedOn]_vars

\* C39: whenever no agent session is running, the set of tracked in-flight
\* sessions is empty: every session added to the set is removed when it ends,
\* whether it completes, suspends, or the runtime throws.
C39_TrackedSessionsAreInFlight ==
  /\ NoCall => activeAgentSessions = {}
  /\ ~NoCall => activeAgentSessions = {sessions}

====
